---------------------------- MODULE Spec2Model ----------------------------
(***************************************************************************)
(* Pickup-scheduling pipeline of the repository (src/TempBonus):           *)
(*   network_api.py   travel-time model (graph build, all-pairs Dijkstra)  *)
(*   job_builder.py   job synthesizer                                      *)
(*   job_windows.py   window repair                                        *)
(*   vrptw_solver.py  fleet-minimizing router                              *)
(*                                                                         *)
(* Units.  Travel times are floats in the code; the model keeps them as    *)
(* an integer number of HALF minutes (dyadic values, which float addition  *)
(* adds exactly), so that round() has something to round.  Timestamps are  *)
(* an integer number of seconds.  Volumes and demands are an integer       *)
(* number of HALF units, so that ceil() and int() have something to cut.   *)
(***************************************************************************)
EXTENDS Integers, Sequences, FiniteSets, TLC

VARIABLES
  \* ---- travel-time model (network_api.py) ----
  edges,      \* the edge list returned by fetch_network_edges
  directed,   \* the directed flag of compute_travel_times
  cauldrons,  \* the ids returned by fetch_cauldrons
  G,          \* the networkx graph under construction (NoGraph before)
  matrix,     \* the travel-time DataFrame (NoMatrix before)
  netPc,      \* position inside compute_travel_times
  \* ---- jobs and window repair (job_windows.py) ----
  jobs,            \* the jobs frame handed to widen_and_shift_windows / the router
  min_window_min,  \* parameter of widen_and_shift_windows
  add_slack_min,   \* parameter of widen_and_shift_windows
  repaired,        \* the frame widen_and_shift_windows returns
  winPc,           \* "start" before the call, "done" after it
  \* ---- fleet-minimizing router (vrptw_solver.py) ----
  vehicle_capacity,       \* argument, in half units
  unload_time_min,        \* argument
  shift_length_min,       \* argument
  search_limit_vehicles,  \* argument: NoLimit (None) or [start, max]
  time_horizon_pad_min,   \* argument
  K,                      \* the loop variable of the search
  attempts,               \* history: the K of every attempt made, with its outcome
  result,                 \* what solve_vrptw_min_vehicles returned
  rPc,                    \* position inside solve_vrptw_min_vehicles
  \* ---- job synthesizer (job_builder.py) ----
  future_wide,             \* the forecast frame: its columns and their hourly samples
  overflow_frac,           \* argument, in percent
  target_frac,             \* argument, in percent
  buffer_min,              \* argument
  service_time_min,        \* argument
  max_job_split_capacity,  \* argument: 0 (None) or the split capacity
  jobPc,                   \* "start" before build_pickup_jobs, "done" or "raised" after
  \* ---- diagnostics (test.py) ----
  lb_cap,                  \* result of basic_lower_bounds
  bad_nodes,               \* result of unreachable_nodes
  too_tight,               \* result of tight_windows
  diagPc,                  \* position in the diagnostics block of the pipeline
  \* ---- live playback (potion_player.py, LiveDFPlayer) ----
  player_n,     \* self.n: the number of frames
  player_idx,   \* self.idx
  direction,    \* self.direction: +1 or -1
  playing,      \* self.playing
  stop_evt,     \* self._stop_evt is set
  thread,       \* self._thread: 0 (None) or the number of the last thread started
  loopPc,       \* position of every loop thread inside _loop
  stopPc,       \* position of a caller inside stop()
  lastOp,       \* history: the operation (and branch) that made the last step
  \* ---- ticket reconciliation (analysis.py) ----
  drain_events_list,   \* argument of reconcile_events_and_tickets
  tickets_today_list,  \* argument of reconcile_events_and_tickets
  tickets_to_match,    \* the pool of tickets not yet paired
  reconciled_pairs,    \* result
  unlogged_drains,     \* result
  flagged_tickets,     \* result
  evPos,               \* the position of the loop over events_to_match
  recPc                \* position inside reconcile_events_and_tickets

netVars == <<edges, directed, cauldrons, G, matrix, netPc>>

winVars == <<jobs, min_window_min, add_slack_min, repaired, winPc>>

routerArgs == <<vehicle_capacity, unload_time_min, shift_length_min,
                search_limit_vehicles, time_horizon_pad_min>>

routerVars == <<routerArgs, K, attempts, result, rPc>>

builderArgs == <<future_wide, overflow_frac, target_frac, buffer_min,
                 service_time_min, max_job_split_capacity>>

builderVars == <<builderArgs, jobPc>>

diagVars == <<lb_cap, bad_nodes, too_tight, diagPc>>

playerVars == <<player_n, player_idx, direction, playing, stop_evt, thread,
                loopPc, stopPc, lastOp>>

reconVars == <<drain_events_list, tickets_today_list, tickets_to_match,
               reconciled_pairs, unlogged_drains, flagged_tickets, evPos, recPc>>

vars == <<netVars, winVars, routerVars, builderVars, diagVars, playerVars, reconVars>>

---------------------------------------------------------------------------
(* Bounds of the model *)

MaxEdges == 2

MaxWinJobs == 2

MaxJobs == 2

MaxK == 3

MaxSamples == 4

MaxDiagJobs == 2

\* the largest fleet size tried in the runs of the default search range
MaxSearchK == 13

\* the largest number of frames of a player
MaxFrames == 3

\* the largest number of loop threads a player starts
MaxThreads == 3

\* the largest numbers of drain events and of tickets of one day
MaxEvents == 2

MaxTickets == 2

---------------------------------------------------------------------------
(* Generic helpers *)

SeqToSet(s) == {s[i] : i \in 1..Len(s)}

Min2(a, b) == IF a <= b THEN a ELSE b

Max2(a, b) == IF a >= b THEN a ELSE b

---------------------------------------------------------------------------
(* Travel-time model: network_api.py *)

\* float("inf"), the value of an unreachable cell
Inf == 999999999

MarketId == "M"

CauldronIds == {"A", "B"}

NodeNames == CauldronIds \cup {MarketId}

\* The "travel_time_minutes" field as the API delivers it: a number (in half
\* minutes) or something float() cannot convert.
RawWeights ==
  {[num |-> TRUE, v |-> 0], [num |-> TRUE, v |-> 20], [num |-> TRUE, v |-> 24],
   [num |-> TRUE, v |-> -10], [num |-> FALSE, v |-> 0]}

EdgeRecs == [from : NodeNames, to : NodeNames, travel_time_minutes : RawWeights]

EdgeLists == UNION {[1..n -> EdgeRecs] : n \in 0..MaxEdges}

NoGraph == [made |-> FALSE]

NoMatrix == [made |-> FALSE]

\* nx.DiGraph() / nx.Graph(): nodes in insertion order, adjacency in insertion
\* order, one weight per stored (u, v)
EmptyGraph ==
  [made |-> TRUE,
   nodes |-> <<>>,
   adj |-> [n \in NodeNames |-> <<>>],
   w |-> [p \in NodeNames \X NodeNames |-> 0]]

HasNode(g, n) == n \in SeqToSet(g.nodes)

\* G.has_edge(u, v)
HasEdge(g, u, v) == HasNode(g, u) /\ v \in SeqToSet(g.adj[u])

\* G.add_node(n)
AddNode(g, n) == IF HasNode(g, n) THEN g ELSE [g EXCEPT !.nodes = Append(@, n)]

\* one direction of add_edge: adj[u][v] = {travel_time: w}
SetArc(g, u, v, w) ==
  [g EXCEPT !.adj[u] = IF v \in SeqToSet(@) THEN @ ELSE Append(@, v),
            !.w[<<u, v>>] = w]

\* G.add_edge(u, v, travel_time=w) on a DiGraph (dir) or a Graph (~dir)
AddEdge(g, dir, u, v, w) ==
  LET g1 == AddNode(AddNode(g, u), v)
      g2 == SetArc(g1, u, v, w)
  IN  IF dir THEN g2 ELSE SetArc(g2, v, u, w)

\* mutant of BuildGraphEdge: a duplicate overwrites the stored weight
BuildGraphEdge_Overwrite(g, dir, u, v, w) == AddEdge(g, dir, u, v, w)

\* body of the loop of build_graph for one edge whose weight float() accepted
BuildGraphEdge(g, dir, u, v, w) ==
  IF dir
    THEN AddEdge(g, dir, u, v, w)
    ELSE IF HasEdge(g, u, v)
           THEN AddEdge(g, dir, u, v, Min2(g.w[<<u, v>>], w))
           ELSE AddEdge(g, dir, u, v, w)

\* float(e["travel_time_minutes"]) raises ValueError on a non-numeric value
FloatRaises(e) == ~ e.travel_time_minutes.num

RECURSIVE BuildGraphFrom(_, _, _, _)
BuildGraphFrom(es, dir, i, g) ==
  IF i > Len(es) THEN g
  ELSE BuildGraphFrom(es, dir, i + 1,
         BuildGraphEdge(g, dir, es[i].from, es[i].to, es[i].travel_time_minutes.v))

\* build_graph(edges, directed): the graph, or NoGraph when float() raised
BuildGraphOf(es, dir) ==
  IF \E i \in 1..Len(es) : FloatRaises(es[i])
    THEN NoGraph
    ELSE BuildGraphFrom(es, dir, 1, EmptyGraph)

\* ---- nx.all_pairs_dijkstra_path_length(G, weight="travel_time") ----
\* State of one single-source run: dist (final distances, defined on done),
\* seen (tentative distances, defined on seenSet), the heap (fringe) of
\* <<distance, push counter, node>> and the push counter c.

DijkstraStart(s) ==
  [err |-> FALSE,
   done |-> {},
   dist |-> [n \in NodeNames |-> Inf],
   seenSet |-> {s},
   seen |-> [n \in NodeNames |-> IF n = s THEN 0 ELSE Inf],
   fringe |-> {<<0, 0, s>>},
   c |-> 1]

\* heappop: the least (distance, counter) entry
HeapTop(fringe) ==
  CHOOSE x \in fringe :
    \A y \in fringe : x[1] < y[1] \/ (x[1] = y[1] /\ x[2] <= y[2])

\* the loop over G_succ[v].items(), from the i-th neighbour on
RECURSIVE DijkstraRelax(_, _, _, _)
DijkstraRelax(g, v, i, st) ==
  IF st.err \/ i > Len(g.adj[v]) THEN st
  ELSE LET u == g.adj[v][i]
           vu_dist == st.dist[v] + g.w[<<v, u>>]
       IN  IF u \in st.done
             THEN IF vu_dist < st.dist[u]
                    THEN [st EXCEPT !.err = TRUE]  \* ValueError: negative weights?
                    ELSE DijkstraRelax(g, v, i + 1, st)
             ELSE IF u \notin st.seenSet \/ vu_dist < st.seen[u]
                    THEN DijkstraRelax(g, v, i + 1,
                           [st EXCEPT !.seenSet = @ \cup {u},
                                      !.seen[u] = vu_dist,
                                      !.fringe = @ \cup {<<vu_dist, st.c, u>>},
                                      !.c = @ + 1])
                    ELSE DijkstraRelax(g, v, i + 1, st)

\* the while loop over the heap
RECURSIVE DijkstraLoop(_, _)
DijkstraLoop(g, st) ==
  IF st.err \/ st.fringe = {} THEN st
  ELSE LET top == HeapTop(st.fringe)
           v == top[3]
           popped == [st EXCEPT !.fringe = @ \ {top}]
       IN  IF v \in st.done
             THEN DijkstraLoop(g, popped)
             ELSE DijkstraLoop(g,
                    DijkstraRelax(g, v, 1,
                      [popped EXCEPT !.done = @ \cup {v}, !.dist[v] = top[1]]))

\* single-source lengths from s: [err, done, dist]
DijkstraFrom(g, s) == DijkstraLoop(g, DijkstraStart(s))

\* all_pairs_travel_time_matrix(G): lengths.get(i, {}).get(j, inf) over the
\* nodes of G; NoMatrix when Dijkstra raised
AllPairsMatrixOf(g) ==
  LET nodes == SeqToSet(g.nodes)
      run == [s \in nodes |-> DijkstraFrom(g, s)]
  IN  IF \E s \in nodes : run[s].err
        THEN NoMatrix
        ELSE [made |-> TRUE,
              nodes |-> nodes,
              val |-> [p \in nodes \X nodes |->
                         IF p[2] \in run[p[1]].done THEN run[p[1]].dist[p[2]] ELSE Inf]]

\* the add_node calls of compute_travel_times: the market, then every
\* cauldron id in the order of the cauldrons frame
RECURSIVE AddNodesFrom(_, _, _)
AddNodesFrom(g, cids, i) ==
  IF i > Len(cids) THEN g ELSE AddNodesFrom(AddNode(g, cids[i]), cids, i + 1)

\* mutant of AddRequiredNodesOf: the market is not added
AddRequiredNodesOf_NoMarket(g, market, cids) == AddNodesFrom(g, cids, 1)

AddRequiredNodesOf(g, market, cids) == AddNodesFrom(AddNode(g, market), cids, 1)

\* the cauldrons frames the API may deliver
CauldronLists == {<<"A", "B">>, <<"A">>}

\* the variables of window repair while it is not running
WinIdle ==
  /\ jobs = <<>>
  /\ min_window_min = 60
  /\ add_slack_min = 45
  /\ repaired = <<>>
  /\ winPc = "idle"

NoLimit == [given |-> FALSE]

NoResult == [returned |-> FALSE]

\* the variables of the router while it is not running
RouterIdle ==
  /\ vehicle_capacity = 2
  /\ unload_time_min = 15
  /\ shift_length_min = 480
  /\ search_limit_vehicles = NoLimit
  /\ time_horizon_pad_min = 60
  /\ K = 0
  /\ attempts = <<>>
  /\ result = NoResult
  /\ rPc = "idle"

NoForecast == [index |-> <<>>, columns |-> <<>>, values |-> [c \in CauldronIds |-> <<>>]]

\* the variables of the job synthesizer while it is not running
BuilderIdle ==
  /\ future_wide = NoForecast
  /\ overflow_frac = 90
  /\ target_frac = 20
  /\ buffer_min = 45
  /\ service_time_min = 8
  /\ max_job_split_capacity = 0
  /\ jobPc = "idle"

\* the variables of the diagnostics while they are not running
DiagIdle ==
  /\ lb_cap = 0
  /\ bad_nodes = <<>>
  /\ too_tight = <<>>
  /\ diagPc = "idle"

\* a player over no frames on which nothing was called
PlayerIdle ==
  /\ player_n = 0
  /\ player_idx = 0
  /\ direction = 1
  /\ playing = FALSE
  /\ stop_evt = FALSE
  /\ thread = 0
  /\ loopPc = [t \in 1..MaxThreads |-> "unborn"]
  /\ stopPc = "idle"
  /\ lastOp = "init"

\* the variables of the reconciliation while it is not running
ReconIdle ==
  /\ drain_events_list = <<>>
  /\ tickets_today_list = <<>>
  /\ tickets_to_match = <<>>
  /\ reconciled_pairs = <<>>
  /\ unlogged_drains = <<>>
  /\ flagged_tickets = <<>>
  /\ evPos = 0
  /\ recPc = "idle"

NetInit ==
  /\ WinIdle
  /\ RouterIdle
  /\ BuilderIdle
  /\ DiagIdle
  /\ PlayerIdle
  /\ ReconIdle
  /\ edges \in EdgeLists
  /\ directed \in BOOLEAN
  /\ cauldrons \in CauldronLists
  /\ G = NoGraph
  /\ matrix = NoMatrix
  /\ netPc = "start"

\* compute_travel_times, the call of build_graph
BuildGraph ==
  /\ netPc = "start"
  /\ G' = BuildGraphOf(edges, directed)
  /\ netPc' = IF G'.made THEN "built" ELSE "build_error"
  /\ UNCHANGED <<playerVars, reconVars, diagVars, edges, directed, cauldrons, matrix, winVars, routerVars, builderVars>>

\* compute_travel_times, the add_node calls
AddRequiredNodes ==
  /\ netPc = "built"
  /\ G' = AddRequiredNodesOf(G, MarketId, cauldrons)
  /\ netPc' = "nodes"
  /\ UNCHANGED <<playerVars, reconVars, diagVars, edges, directed, cauldrons, matrix, winVars, routerVars, builderVars>>

\* compute_travel_times, the call of all_pairs_travel_time_matrix
AllPairs ==
  /\ netPc = "nodes"
  /\ matrix' = AllPairsMatrixOf(G)
  /\ netPc' = IF matrix'.made THEN "done" ELSE "matrix_error"
  /\ UNCHANGED <<playerVars, reconVars, diagVars, edges, directed, cauldrons, G, winVars, routerVars, builderVars>>

NetNext == BuildGraph \/ AddRequiredNodes \/ AllPairs

SpecNet == NetInit /\ [][NetNext]_vars

---------------------------------------------------------------------------
(* Claims about the travel-time model, checked under SpecNet *)

\* e is malformed: its weight is non-numeric or negative
Malformed(e) == FloatRaises(e) \/ e.travel_time_minutes.v < 0

WellFormed(es) == \A i \in 1..Len(es) : ~ Malformed(es[i])

\* the weights the edge list gives for the unordered pair {u, v}
PairWeights(es, u, v) ==
  {es[i].travel_time_minutes.v : i \in {k \in 1..Len(es) :
      {es[k].from, es[k].to} = {u, v}}}

SetMin(S) == CHOOSE x \in S : \A y \in S : x <= y

\* the whole of compute_travel_times on an edge list: the matrix or NoMatrix
TravelTimesOf(es, dir, cids) ==
  LET g == BuildGraphOf(es, dir)
  IN  IF g.made THEN AllPairsMatrixOf(AddRequiredNodesOf(g, MarketId, cids))
      ELSE NoMatrix

\* es reordered by the permutation f of its positions
Reordered(es, f) == [i \in 1..Len(es) |-> es[f[i]]]

\* no input edge touches n
Isolated(es, n) == \A i \in 1..Len(es) : es[i].from # n /\ es[i].to # n

\* C5 (as stated): every matrix the travel-time model produces has a zero
\* diagonal and no negative entry, whatever the edge list.
C5_DiagZeroNonNegative ==
  matrix.made =>
    /\ \A n \in matrix.nodes : matrix.val[<<n, n>>] = 0
    /\ \A p \in matrix.nodes \X matrix.nodes : matrix.val[p] >= 0

\* C6: an undirected build stores, for every pair of nodes the edge list
\* connects, the minimum of the weights listed for that pair (in either
\* direction), the matrix is symmetric, and the edges A->B: 10 min,
\* B->A: 12 min give matrix[A][B] = matrix[B][A] = 10 min (20 half minutes).
C6_UndirectedSymmetricMin ==
  (~ directed) =>
    /\ G.made =>
         \A u, v \in NodeNames :
           /\ HasEdge(G, u, v) <=> PairWeights(edges, u, v) # {}
           /\ HasEdge(G, u, v) =>
                /\ G.w[<<u, v>>] = SetMin(PairWeights(edges, u, v))
                /\ G.w[<<v, u>>] = G.w[<<u, v>>]
    /\ matrix.made =>
         /\ \A u, v \in matrix.nodes : matrix.val[<<u, v>>] = matrix.val[<<v, u>>]
         /\ \A u, v \in matrix.nodes :
              (u # v /\ PairWeights(edges, u, v) # {}) =>
                 matrix.val[<<u, v>>] <= SetMin(PairWeights(edges, u, v))
         /\ edges = <<[from |-> "A", to |-> "B",
                       travel_time_minutes |-> [num |-> TRUE, v |-> 20]],
                      [from |-> "B", to |-> "A",
                       travel_time_minutes |-> [num |-> TRUE, v |-> 24]]>>
              => /\ matrix.val[<<"A", "B">>] = 20
                 /\ matrix.val[<<"B", "A">>] = 20

\* C6 witness: an undirected build of two edges over the same pair with
\* different weights has produced its matrix.
C6_Witness ==
  /\ ~ directed
  /\ netPc = "done"
  /\ Len(edges) = 2
  /\ edges[1].from = "A" /\ edges[1].to = "B"
  /\ edges[2].from = "B" /\ edges[2].to = "A"
  /\ edges[1].travel_time_minutes.v = 20
  /\ edges[2].travel_time_minutes.v = 24

\* C7 (as stated, restricted to well-formed edges): the matrix built from
\* the edge list equals the matrix built from any reordering of it.
C7_OrderIndependent ==
  (netPc = "done" /\ WellFormed(edges)) =>
    \A f \in Permutations(1..Len(edges)) :
      TravelTimesOf(Reordered(edges, f), directed, cauldrons) = matrix

\* C8: every required node (the market and every cauldron) is a row and a
\* column of the matrix; one that no edge touches has distance 0 to itself
\* and infinite distance to and from every other node.
C8_RequiredNodesPresent ==
  netPc = "done" =>
    \A n \in {MarketId} \cup SeqToSet(cauldrons) :
      /\ n \in matrix.nodes
      /\ Isolated(edges, n) =>
           /\ matrix.val[<<n, n>>] = 0
           /\ \A m \in matrix.nodes \ {n} :
                matrix.val[<<n, m>>] = Inf /\ matrix.val[<<m, n>>] = Inf

\* C8 witness: a matrix was produced in which the market is isolated while
\* two other nodes are connected.
C8_Witness ==
  /\ netPc = "done"
  /\ Isolated(edges, MarketId)
  /\ Len(edges) > 0
  /\ \E u, v \in matrix.nodes : u # v /\ matrix.val[<<u, v>>] < Inf

\* C9 (as stated): an edge list that contains a malformed edge (negative or
\* non-numeric weight) never yields a graph or a matrix.
C9_MalformedRejected ==
  (\E i \in 1..Len(edges) : Malformed(edges[i])) =>
    (~ G.made /\ ~ matrix.made)

---------------------------------------------------------------------------
(* Window repair: job_windows.py *)

\* round() of a float given in half units: to the nearest integer, a tie to
\* the even one
RoundHalves(h) ==
  LET q == h \div 2
  IN  IF h % 2 = 0 THEN q ELSE IF q % 2 = 0 THEN q ELSE q + 1

\* int((latest - earliest).total_seconds() // 60)
WindowMinutes(earliest, latest) == (latest - earliest) \div 60

\* pd.Timedelta(minutes=m), in seconds
Minutes(m) == 60 * m

\* a well-formed edge record
Edge(u, v, w) ==
  [from |-> u, to |-> v, travel_time_minutes |-> [num |-> TRUE, v |-> w]]

\* the travel-time matrix of compute_travel_times(directed=False) on es
UndirectedMatrix(es) == TravelTimesOf(es, FALSE, <<"A", "B">>)

\* travel_minutes.loc[a, b]
Loc(m, a, b) == m.val[<<a, b>>]

\* mutant of WidenJob: the minimum-window rule is applied to an unreachable
\* job as well
WidenJob_MinWindowAlways(r, t_dep, minw, slack) ==
  LET have == WindowMinutes(r.earliest, r.latest)
      grow == minw - have
  IN  IF t_dep = Inf /\ have < minw
        THEN [r EXCEPT !.earliest = @ - Minutes(grow \div 2),
                       !.latest = @ + Minutes(grow - grow \div 2)]
        ELSE r

\* mutant of WidenJob: the need-based widening pushes earliest later
WidenJob_PushEarliest(r, t_dep, minw, slack) ==
  LET need == RoundHalves(t_dep + 2 * r.service_time + 2 * slack)
      have == WindowMinutes(r.earliest, r.latest)
      delta == need - have
  IN  IF t_dep = Inf \/ have >= need THEN r
      ELSE [r EXCEPT !.earliest = @ + Minutes(delta \div 2 + slack \div 2),
                     !.latest = @ + Minutes(delta - delta \div 2 + slack \div 2)]

\* the body of the loop of widen_and_shift_windows for one row r, whose
\* depot->node travel time is t_dep (half minutes, or Inf)
WidenJob(r, t_dep, minw, slack) ==
  IF t_dep = Inf THEN r
  ELSE
    LET need == RoundHalves(t_dep + 2 * r.service_time + 2 * slack)
        have == WindowMinutes(r.earliest, r.latest)
        delta == need - have
        e1 == IF have < need
                THEN r.earliest - Minutes(delta \div 2 + slack \div 2)
                ELSE r.earliest
        l1 == IF have < need
                THEN r.latest + Minutes(delta - delta \div 2 + slack \div 2)
                ELSE r.latest
        have2 == WindowMinutes(e1, l1)
        grow == minw - have2
        e2 == IF have2 < minw THEN e1 - Minutes(grow \div 2) ELSE e1
        l2 == IF have2 < minw THEN l1 + Minutes(grow - grow \div 2) ELSE l1
    IN  [r EXCEPT !.earliest = e2, !.latest = l2]

\* widen_and_shift_windows(jobs, travel_minutes, depot_id, min_window_min,
\* add_slack_min): a copy of the frame with every row repaired
WidenAndShiftWindowsOf(js, m, depot, minw, slack) ==
  [i \in 1..Len(js) |-> WidenJob(js[i], Loc(m, depot, js[i].node_id), minw, slack)]

\* ---- inputs of the window-repair runs ----

\* networks whose matrices give the market->node travel times
WinNetworks ==
  {<<>>,
   <<Edge("M", "A", 15)>>,
   <<Edge("M", "A", 41), Edge("M", "B", 90)>>,
   <<Edge("M", "A", 0), Edge("B", "M", 80)>>}

\* window lengths in seconds: 0, 45 s, 10 min, 15 min, 60 min
WinLengths == {0, 45, 600, 900, 3600}

WinServiceTimes == {0, 8}

WinChoices == [node : CauldronIds, len : WinLengths, service : WinServiceTimes]

\* the job rows of a run of window repair: row i has job id i
WinJobsOf(c) ==
  [i \in 1..Len(c) |->
     [job_id |-> i, node_id |-> c[i].node,
      earliest |-> 7200, latest |-> 7200 + c[i].len,
      demand |-> 2, service_time |-> c[i].service]]

\* the variables of the travel-time model once a matrix m is at hand
NetGiven(m) ==
  /\ edges = <<>>
  /\ directed = FALSE
  /\ cauldrons = <<"A", "B">>
  /\ G = NoGraph
  /\ matrix = m
  /\ netPc = "given"

WinInit ==
  /\ \E es \in WinNetworks : NetGiven(UndirectedMatrix(es))
  /\ \E n \in 0..MaxWinJobs : \E c \in [1..n -> WinChoices] : jobs = WinJobsOf(c)
  /\ min_window_min \in {0, 60}
  /\ add_slack_min \in {0, 5, 45}
  /\ repaired = <<>>
  /\ winPc = "start"
  /\ RouterIdle
  /\ BuilderIdle
  /\ DiagIdle
  /\ PlayerIdle
  /\ ReconIdle

\* the call of widen_and_shift_windows
WidenAndShiftWindows ==
  /\ winPc = "start"
  /\ repaired' = WidenAndShiftWindowsOf(jobs, matrix, MarketId, min_window_min,
                                        add_slack_min)
  /\ winPc' = "done"
  /\ UNCHANGED <<playerVars, reconVars, diagVars, netVars, jobs, min_window_min, add_slack_min, routerVars, builderVars>>

WinNext == WidenAndShiftWindows

SpecWin == WinInit /\ [][WinNext]_vars

---------------------------------------------------------------------------
(* Claims about window repair, checked under SpecWin *)

\* C4: window repair never narrows a window: for every job the output
\* earliest is at or before the input earliest, the output latest at or
\* after the input latest, and the output has earliest <= latest.
C4_NeverNarrows ==
  winPc = "done" =>
    /\ Len(repaired) = Len(jobs)
    /\ \A i \in 1..Len(jobs) :
         /\ repaired[i].earliest <= jobs[i].earliest
         /\ repaired[i].latest >= jobs[i].latest
         /\ repaired[i].earliest <= repaired[i].latest

\* C4 witness: repair ran on a reachable job and moved both ends of its
\* window.
C4_Witness ==
  /\ winPc = "done"
  /\ \E i \in 1..Len(jobs) :
       /\ Loc(matrix, MarketId, jobs[i].node_id) # Inf
       /\ repaired[i].earliest < jobs[i].earliest
       /\ repaired[i].latest > jobs[i].latest

\* C18: window repair returns a job whose depot->node travel time is
\* infinite exactly as it was given: same earliest, same latest, same row.
C18_UnreachableUntouched ==
  winPc = "done" =>
    \A i \in 1..Len(jobs) :
      Loc(matrix, MarketId, jobs[i].node_id) = Inf =>
        /\ repaired[i].earliest = jobs[i].earliest
        /\ repaired[i].latest = jobs[i].latest
        /\ repaired[i] = jobs[i]

\* C18 witness: repair ran with a positive minimum window on an unreachable
\* job whose window is shorter than it, next to a reachable job that was
\* widened.
C18_Witness ==
  /\ winPc = "done"
  /\ min_window_min > 0
  /\ \E i \in 1..Len(jobs) :
       /\ Loc(matrix, MarketId, jobs[i].node_id) = Inf
       /\ WindowMinutes(jobs[i].earliest, jobs[i].latest) < min_window_min
  /\ \E i \in 1..Len(jobs) :
       /\ Loc(matrix, MarketId, jobs[i].node_id) # Inf
       /\ repaired[i] # jobs[i]

\* need = int(round(t_dep + service_time + add_slack_min)) of job row i
NeedOf(i) ==
  RoundHalves(Loc(matrix, MarketId, jobs[i].node_id)
                + 2 * jobs[i].service_time + 2 * add_slack_min)

\* the window of job row i before repair, in whole minutes
HaveOf(i) == WindowMinutes(jobs[i].earliest, jobs[i].latest)

\* job row i is reachable and its window is shorter than its need
ShortOfNeed(i) ==
  /\ Loc(matrix, MarketId, jobs[i].node_id) # Inf
  /\ HaveOf(i) < NeedOf(i)

\* C21 (as stated): when a reachable job's window is shorter than its need,
\* the time the need-based widening adds (pulled off earliest plus pushed
\* onto latest) is exactly (need - current duration) + slack minutes.  Read
\* off runs in which the minimum-window rule has nothing to add
\* (min_window_min = 0).
C21_ExactGrowth ==
  (winPc = "done" /\ min_window_min = 0) =>
    \A i \in 1..Len(jobs) :
      ShortOfNeed(i) =>
        (jobs[i].earliest - repaired[i].earliest) + (repaired[i].latest - jobs[i].latest)
          = Minutes((NeedOf(i) - HaveOf(i)) + add_slack_min)

\* C22 (as stated): after repair the window of every job with a finite
\* depot->node travel time lasts at least travel + service_time + slack
\* minutes and at least min_window_min minutes (travel in half minutes,
\* windows in seconds).
C22_WindowAtLeastNeed ==
  winPc = "done" =>
    \A i \in 1..Len(jobs) :
      Loc(matrix, MarketId, jobs[i].node_id) # Inf =>
        /\ repaired[i].latest - repaired[i].earliest
             >= 30 * (Loc(matrix, MarketId, jobs[i].node_id)
                        + 2 * jobs[i].service_time + 2 * add_slack_min)
        /\ repaired[i].latest - repaired[i].earliest >= Minutes(min_window_min)

---------------------------------------------------------------------------
(* Fleet-minimizing router: vrptw_solver.py.  The operators below read the  *)
(* arguments of solve_vrptw_min_vehicles from the state: matrix              *)
(* (travel_minutes), jobs, MarketId (depot_id) and the router arguments.     *)
(* Routing nodes are numbered as in all_nodes: 0 is the depot, i is the      *)
(* synthetic node "JOB::<job_id>" of row i of the jobs frame.                *)

\* the travel time given to a disconnected pair
Penalty == 1000000

\* the slack_max of the Time dimension ("allow waiting")
SlackMax == 60

\* pd.Timestamp.now(), used only when the jobs frame is empty
Now == 7200

SetMax(S) == CHOOSE x \in S : \A y \in S : x >= y

NJobs == Len(jobs)

\* the underlying facility of a routing node
BaseNode(idx) == IF idx = 0 THEN MarketId ELSE jobs[idx].node_id

\* travel_time(a_name, b_name): int(round(val)), or the penalty
TravelTime(a, b) ==
  LET val == Loc(matrix, BaseNode(a), BaseNode(b))
  IN  IF val = Inf THEN Penalty ELSE RoundHalves(val)

GlobalStart ==
  IF NJobs > 0 THEN SetMin({jobs[i].earliest : i \in 1..NJobs}) ELSE Now

GlobalEnd ==
  IF NJobs > 0
    THEN SetMax({jobs[i].latest : i \in 1..NJobs}) + Minutes(time_horizon_pad_min)
    ELSE GlobalStart + Minutes(60)

\* to_minutes(ts): whole minutes from global_start, rounded down
ToMinutes(ts) == (ts - GlobalStart) \div 60

TwEarliest(idx) == IF idx = 0 THEN 0 ELSE ToMinutes(jobs[idx].earliest)

TwLatest(idx) ==
  IF idx = 0 THEN (GlobalEnd - GlobalStart) \div 60 ELSE ToMinutes(jobs[idx].latest)

ServiceTime(idx) == IF idx = 0 THEN unload_time_min ELSE jobs[idx].service_time

\* demand_cb: int(math.ceil(demand)), demand in half units
DemandCb(idx) == IF idx = 0 THEN 0 ELSE (jobs[idx].demand + 1) \div 2

\* sum(demands), in half units
RECURSIVE SumDemands(_)
SumDemands(i) == IF i = 0 THEN 0 ELSE jobs[i].demand + SumDemands(i - 1)

\* math.ceil(a / b) for b # 0
CeilDiv(a, b) == IF b > 0 THEN - ((- a) \div b) ELSE - (a \div (- b))

\* cap_lb = max(1, math.ceil(sum(demands) / vehicle_capacity))
CapLb == Max2(1, CeilDiv(SumDemands(NJobs), vehicle_capacity))

StartK == IF search_limit_vehicles.given THEN search_limit_vehicles.start ELSE CapLb

\* mutant of MaxKOf: the default range reaches start_K + 11
MaxKOf_Eleven ==
  IF search_limit_vehicles.given
    THEN search_limit_vehicles.max
    ELSE Max2(CapLb, CapLb + 11)

MaxKOf ==
  IF search_limit_vehicles.given
    THEN search_limit_vehicles.max
    ELSE Max2(CapLb, CapLb + 10)

\* mutant of VehicleCap: the fleet shares the capacity
VehicleCap_Shared(k) == (vehicle_capacity \div 2) \div k

\* the capacity of each of the k vehicles: int(vehicle_capacity)
VehicleCap(k) == vehicle_capacity \div 2

\* ---- the routing model of one attempt with k vehicles ----
\* A route is the sequence of job nodes a vehicle visits between its start
\* and its end at the depot.  s is the Time cumul at the vehicle's start, w
\* the slack at its start.

\* routing node at position i of route q: 0 = start, Len(q) + 1 = end
NodeAt(q, i) == IF i = 0 \/ i = Len(q) + 1 THEN 0 ELSE q[i]

\* Time cumul at every position: cumul(next) = cumul + transit + slack; the
\* slack of a job node is fixed to its service time
RouteArrivals(q, s, w) ==
  LET arr[i \in 0..(Len(q) + 1)] ==
        IF i = 0 THEN s
        ELSE arr[i - 1] + TravelTime(NodeAt(q, i - 1), NodeAt(q, i))
                        + (IF i = 1 THEN w ELSE ServiceTime(NodeAt(q, i - 1)))
  IN  arr

\* Capacity cumul at every position: starts at 0, grows by the demand of
\* the node left
RouteLoads(q) ==
  LET load[i \in 0..(Len(q) + 1)] ==
        IF i = 0 THEN 0 ELSE load[i - 1] + DemandCb(NodeAt(q, i - 1))
  IN  load

\* the Time constraints on vehicle v's route: every cumul in
\* [0, shift_length_min], job cumuls in their windows, job slacks equal to
\* the service time; the depot's window and service time are set on
\* manager.NodeToIndex(0), which is the start of vehicle 0
RouteTimeOk(v, q, s, w) ==
  LET arr == RouteArrivals(q, s, w)
  IN  /\ s \in 0..shift_length_min
      /\ w \in 0..SlackMax
      /\ v = 0 => (w = ServiceTime(0) /\ s >= TwEarliest(0) /\ s <= TwLatest(0))
      /\ \A i \in 1..Len(q) :
           /\ arr[i] \in 0..shift_length_min
           /\ arr[i] >= TwEarliest(q[i])
           /\ arr[i] <= TwLatest(q[i])
           /\ ServiceTime(q[i]) \in 0..SlackMax
      /\ arr[Len(q) + 1] \in 0..shift_length_min

\* the Capacity constraints on a route of one of k vehicles
RouteLoadOk(k, q) ==
  \A i \in 0..(Len(q) + 1) : RouteLoads(q)[i] \in 0..VehicleCap(k)

\* the start cumuls and start slacks that satisfy the Time constraints
\* (transits are not negative, so s + w cannot exceed the shift length)
RouteTimings(v, q) ==
  UNION {{<<s, w>> : w \in {x \in 0..Min2(SlackMax, shift_length_min - s) :
                              RouteTimeOk(v, q, s, x)}} :
         s \in 0..shift_length_min}

\* the routes of k vehicles when job j rides on vehicle a[j] and the jobs
\* are visited in the order p
RoutingOf(k, a, p) ==
  [v \in 0..(k - 1) |-> LET OnV(j) == a[j] = v IN SelectSeq(p, OnV)]

\* every way to serve all jobs with k vehicles: each job on one route, once
Routings(k) ==
  {RoutingOf(k, a, p) :
     a \in [1..NJobs -> 0..(k - 1)], p \in Permutations(1..NJobs)}

\* vehicle v of k can drive route q
RouteFeasible(k, v, q) ==
  /\ RouteLoadOk(k, q)
  /\ \E s \in 0..shift_length_min :
       \E w \in 0..Min2(SlackMax, shift_length_min - s) : RouteTimeOk(v, q, s, w)

\* every route over the jobs: a sequence of job nodes without repetition
AllRoutes ==
  {LET InS(j) == j \in S IN SelectSeq(p, InS) :
     S \in SUBSET (1..NJobs), p \in Permutations(1..NJobs)}

\* the routes vehicle v of k can drive; the vehicles other than vehicle 0
\* have the same constraints
FeasibleRoutes(k, v) == {q \in AllRoutes : RouteFeasible(k, v, q)}

\* the routings that satisfy every constraint of the model with k vehicles
FeasibleRoutings(k) ==
  LET first == FeasibleRoutes(k, 0)
      others == FeasibleRoutes(k, 1)
  IN  {r \in Routings(k) :
         \A v \in 0..(k - 1) : r[v] \in (IF v = 0 THEN first ELSE others)}

\* the routing model with k vehicles has a solution
Feasible(k) == FeasibleRoutings(k) # {}

\* ---- extraction of the plan ----

\* minutes_to_ts(m)
MinutesToTs(m) == GlobalStart + Minutes(m)

\* mutant of RouteStops: the walk along the route leaves out its last job
RouteStops_DropLastJob(v, q, s, w) ==
  IF q = <<>> THEN <<>>
  ELSE [i \in 1..(Len(q) + 1) |->
          LET pos == IF i = Len(q) + 1 THEN Len(q) + 1 ELSE i - 1
          IN  [witch_id |-> v,
               node |-> BaseNode(NodeAt(q, pos)),
               synthetic_node |-> NodeAt(q, pos),
               arrive_time |-> MinutesToTs(RouteArrivals(q, s, w)[pos]),
               depart_time |-> MinutesToTs(RouteArrivals(q, s, w)[pos]),
               load |-> RouteLoads(q)[pos]]]

\* the rows of one route of the solution; an empty route gives none
RouteStops(v, q, s, w) ==
  IF q = <<>> THEN <<>>
  ELSE [i \in 1..(Len(q) + 2) |->
          [witch_id |-> v,
           node |-> BaseNode(NodeAt(q, i - 1)),
           synthetic_node |-> NodeAt(q, i - 1),
           arrive_time |-> MinutesToTs(RouteArrivals(q, s, w)[i - 1]),
           depart_time |-> MinutesToTs(RouteArrivals(q, s, w)[i - 1]),
           load |-> RouteLoads(q)[i - 1]]]

\* the row lists the solver's values can give for the routes v, v+1, ...
RECURSIVE PlansFrom(_, _, _)
PlansFrom(k, r, v) ==
  IF v = k THEN {<<>>}
  ELSE LET heads == IF r[v] = <<>>
                      THEN {<<>>}
                      ELSE {RouteStops(v, r[v], t[1], t[2]) : t \in RouteTimings(v, r[v])}
       IN  {h \o rest : h \in heads, rest \in PlansFrom(k, r, v + 1)}

\* mutant of RowBefore: arrival times sort in descending order
RowBefore_Descending(a, b) ==
  \/ a.witch_id < b.witch_id
  \/ (a.witch_id = b.witch_id /\ a.arrive_time > b.arrive_time)

\* row a sorts before row b under sort_values(["witch_id", "arrive_time"])
RowBefore(a, b) ==
  \/ a.witch_id < b.witch_id
  \/ (a.witch_id = b.witch_id /\ a.arrive_time < b.arrive_time)

\* sort_values: rows in (witch_id, arrive_time) order, ties in input order
RECURSIVE SortValues(_)
SortValues(rows) ==
  IF Len(rows) <= 1 THEN rows
  ELSE LET init == SortValues(SubSeq(rows, 1, Len(rows) - 1))
           x == rows[Len(rows)]
           n == Cardinality({i \in 1..Len(init) : ~ RowBefore(x, init[i])})
       IN  SubSeq(init, 1, n) \o <<x>> \o SubSeq(init, n + 1, Len(init))

\* ---- inputs of the router runs ----

\* networks of the router runs: travel times of 1 and 1.5 minutes; in the
\* second network cauldron B cannot be reached; in the third the half
\* minute to A rounds to a travel time of 0
RouterNetworks ==
  {<<Edge("M", "A", 2), Edge("M", "B", 3)>>,
   <<Edge("M", "A", 2)>>,
   <<Edge("M", "A", 1)>>}

\* seconds after 02:00:00 at which a window opens
RouterOpenings == {0, 90}

\* demands in half units: 0.5 and 2.0
RouterDemands == {1, 4}

RouterChoices == [node : CauldronIds, open : RouterOpenings, demand : RouterDemands]

\* the job rows of a run of the router: row i has job id i, a window of two
\* minutes and a service time of one minute
RouterJobsOf(c) ==
  [i \in 1..Len(c) |->
     [job_id |-> i, node_id |-> c[i].node,
      earliest |-> 7200 + c[i].open, latest |-> 7200 + c[i].open + 120,
      demand |-> c[i].demand, service_time |-> 1]]

\* search_limit_vehicles: None, (1, MaxK), or the empty range (2, 1)
RouterLimits ==
  {NoLimit, [given |-> TRUE, start |-> 1, max |-> MaxK],
   [given |-> TRUE, start |-> 2, max |-> 1]}

\* a travel-time frame over the cauldrons only: the depot is not in it
NoDepotMatrix == AllPairsMatrixOf(BuildGraphOf(<<Edge("A", "B", 2)>>, FALSE))

\* the travel_minutes frames of the router runs
RouterMatrices == {UndirectedMatrix(es) : es \in RouterNetworks} \cup {NoDepotMatrix}

\* the order of node ids as strings
NodeRank(n) == IF n = "A" THEN 0 ELSE IF n = "B" THEN 1 ELSE 2

\* build_pickup_jobs returns its rows sorted by (earliest, node_id)
SortedJobs(js) ==
  \A i \in 1..(Len(js) - 1) :
    \/ js[i].earliest < js[i + 1].earliest
    \/ (js[i].earliest = js[i + 1].earliest /\ NodeRank(js[i].node_id) <= NodeRank(js[i + 1].node_id))

RouterInit ==
  /\ \E m \in RouterMatrices : NetGiven(m)
  /\ \E n \in 0..MaxJobs : \E c \in [1..n -> RouterChoices] : jobs = RouterJobsOf(c)
  /\ SortedJobs(jobs)
  /\ min_window_min = 60
  /\ add_slack_min = 45
  /\ repaired = <<>>
  /\ winPc = "idle"
  /\ vehicle_capacity \in {0, 5}
  /\ unload_time_min = 1
  /\ shift_length_min = 8
  /\ search_limit_vehicles \in RouterLimits
  /\ time_horizon_pad_min = 1
  /\ K = 0
  /\ attempts = <<>>
  /\ result = NoResult
  /\ rPc = "start"
  /\ BuilderIdle
  /\ DiagIdle
  /\ PlayerIdle
  /\ ReconIdle

\* mutant of RangeNext: the search skips every other fleet size
RangeNext_Skip(k) == k + 2

\* the next value of range(start_k, max_k + 1)
RangeNext(k) == k + 1

\* mutant of DepotMissing: the depot check never fires
DepotMissing_Never == FALSE

\* depot_id not in node_to_idx
DepotMissing == MarketId \notin matrix.nodes

\* what the tuple (None, None) tells about the range of K tried: nothing
NoRange == [given |-> FALSE]

\* solve_vrptw_min_vehicles from its entry to the head of the search loop:
\* the depot check, the windows, the demands and the search bounds
RouterEnter ==
  /\ rPc = "start"
  /\ IF DepotMissing
       THEN rPc' = "raised" /\ K' = K                \* ValueError
       ELSE IF ~ search_limit_vehicles.given /\ vehicle_capacity = 0
              THEN rPc' = "raised" /\ K' = K         \* ZeroDivisionError
              ELSE rPc' = "loop" /\ K' = StartK
  /\ UNCHANGED <<playerVars, reconVars, diagVars, netVars, winVars, builderVars, routerArgs, attempts, result>>

\* one pass of the loop in which SolveWithParameters returns a solution:
\* the plan is extracted and returned with K (fleets of at most b vehicles)
AttemptSolvedUpTo(b) ==
  /\ rPc = "loop"
  /\ K <= MaxKOf
  /\ K <= b
  /\ \E r \in FeasibleRoutings(K) :
       \E plan \in PlansFrom(K, r, 0) :
            IF plan = <<>>
              THEN /\ rPc' = "raised"                \* KeyError in sort_values
                   /\ result' = result
              ELSE /\ rPc' = "done"
                   /\ result' = [returned |-> TRUE, found |-> TRUE, K |-> K,
                                 schedule |-> SortValues(plan)]
  /\ attempts' = Append(attempts, [K |-> K, solved |-> TRUE])
  /\ UNCHANGED <<playerVars, reconVars, diagVars, netVars, winVars, builderVars, routerArgs, K>>

\* one pass of the loop in which SolveWithParameters returns no solution
\* (the model has none, or the search found none within its time limit)
AttemptNoSolutionUpTo(b) ==
  /\ rPc = "loop"
  /\ K <= MaxKOf
  /\ K <= b
  /\ attempts' = Append(attempts, [K |-> K, solved |-> FALSE])
  /\ K' = RangeNext(K)
  /\ UNCHANGED <<playerVars, reconVars, diagVars, netVars, winVars, builderVars, routerArgs, result, rPc>>

\* the passes of the loop in the router runs, for fleets of at most MaxK
AttemptSolved == AttemptSolvedUpTo(MaxK)

AttemptNoSolution == AttemptNoSolutionUpTo(MaxK)

\* the loop ends without a solution: return None, None
SearchExhausted ==
  /\ rPc = "loop"
  /\ K > MaxKOf
  /\ rPc' = "done"
  /\ result' = [returned |-> TRUE, found |-> FALSE, K |-> 0, schedule |-> <<>>,
                attempted |-> NoRange]
  /\ UNCHANGED <<playerVars, reconVars, diagVars, netVars, winVars, builderVars, routerArgs, K, attempts>>

RouterNext == RouterEnter \/ AttemptSolved \/ AttemptNoSolution \/ SearchExhausted

SpecRouter == RouterInit /\ [][RouterNext]_vars

---------------------------------------------------------------------------
(* Claims about the router, checked under SpecRouter *)

\* the router returned a schedule
Returned == rPc = "done" /\ result.found

\* C1 (as stated): in a returned schedule no row's cumulative load exceeds
\* the vehicle capacity, and every job row's arrival timestamp lies within
\* that job's [earliest, latest].
C1_LoadAndWindowsRespected ==
  Returned =>
    \A i \in 1..Len(result.schedule) :
      LET row == result.schedule[i]
      IN  /\ 2 * row.load <= vehicle_capacity
          /\ row.synthetic_node # 0 =>
               /\ jobs[row.synthetic_node].earliest <= row.arrive_time
               /\ row.arrive_time <= jobs[row.synthetic_node].latest

\* C2: the attempts made are K = start_K, start_K + 1, ... in this order,
\* one each; an attempt that yields a solution is the last attempt made;
\* the K returned is that attempt's K, and every earlier attempt failed.
C2_AscendingFirstSuccess ==
  /\ \A i \in 1..Len(attempts) :
       /\ attempts[i].K = StartK + (i - 1)
       /\ attempts[i].K <= MaxKOf
       /\ attempts[i].solved => (i = Len(attempts) /\ rPc \in {"done", "raised"})
  /\ rPc = "loop" => K = StartK + Len(attempts)
  /\ Returned =>
       /\ Len(attempts) > 0
       /\ attempts[Len(attempts)].solved
       /\ result.K = attempts[Len(attempts)].K
       /\ \A i \in 1..(Len(attempts) - 1) : ~ attempts[i].solved

\* C2 witness: a schedule was returned at the third fleet size tried.
C2_Witness ==
  /\ Returned
  /\ Len(attempts) = 3
  /\ result.K = StartK + 2

\* C3: for the inputs of the run, if the routing model with k vehicles has
\* a solution, so has the model with any larger number of vehicles.
C3_FeasibilityMonotone ==
  (rPc = "loop" /\ attempts = <<>>) =>
    \A k \in 1..MaxK : \A k2 \in (k + 1)..(MaxK + 1) :
      Feasible(k) => Feasible(k2)

\* C3 witness: a schedule was returned at a K below the bound for inputs
\* whose model has no solution with one vehicle fewer.
C3_Witness ==
  /\ Returned
  /\ result.K > 1
  /\ result.K < MaxK
  /\ ~ Feasible(result.K - 1)
  /\ Feasible(result.K + 1)

\* the loop ended without a solution and the router returned
Exhausted == rPc = "done" /\ ~ result.found

\* the search range of the run holds no K
EmptyRange == search_limit_vehicles.given /\ search_limit_vehicles.start > search_limit_vehicles.max

\* C15 (as stated): when no K of start_K..max_K gave a solution (the empty
\* range included) the router returns without raising, and what it returns
\* reports the range of K that was attempted.
C15_ExhaustedReportsRange ==
  /\ (rPc = "loop" /\ K > MaxKOf) => ENABLED SearchExhausted
  /\ Exhausted =>
       /\ \A i \in 1..Len(attempts) : ~ attempts[i].solved
       /\ result.attempted = [given |-> TRUE, start |-> StartK, max |-> MaxKOf]

\* the depot id is not a row of the travel-time frame
DepotAbsent == MarketId \notin matrix.nodes

\* C16: when the depot id is absent from the travel-time matrix the router
\* raises before any K is attempted and returns nothing.
C16_DepotAbsentFailsFast ==
  DepotAbsent =>
    /\ attempts = <<>>
    /\ result = NoResult
    /\ rPc \in {"start", "raised"}

\* C16 witness: the router raised on a frame without the depot.
C16_Witness == DepotAbsent /\ rPc = "raised" /\ attempts = <<>>

\* C17 (as stated): with a vehicle capacity of zero or less the run fails
\* before any K is attempted, for a defaulted and for an explicit range.
C17_NonPositiveCapacityFailsFast ==
  vehicle_capacity <= 0 =>
    /\ attempts = <<>>
    /\ rPc \in {"start", "raised"}

\* C19 (as stated): the departure time recorded for a job stop is its
\* arrival time plus the job's service time.
C19_DepartureAfterService ==
  Returned =>
    \A i \in 1..Len(result.schedule) :
      LET row == result.schedule[i]
      IN  row.synthetic_node # 0 =>
            row.depart_time = row.arrive_time + Minutes(jobs[row.synthetic_node].service_time)

\* the positions of the schedule rows of vehicle v
StopsOf(v) == {i \in 1..Len(result.schedule) : result.schedule[i].witch_id = v}

\* C20: in a returned schedule the rows of every vehicle that appears are
\* contiguous, start and end at the depot, have only job stops (at least
\* one) in between, and follow the route: each stop is reached no earlier
\* than the stop before it plus the travel between them (plus the service
\* time when the stop before is a job).
C20_ScheduleShape ==
  Returned =>
    \A v \in {result.schedule[i].witch_id : i \in 1..Len(result.schedule)} :
      LET S  == StopsOf(v)
          lo == CHOOSE i \in S : \A j \in S : i <= j
          hi == CHOOSE i \in S : \A j \in S : j <= i
          sn(i) == result.schedule[i].synthetic_node
      IN  /\ S = lo..hi
          /\ hi - lo >= 2
          /\ sn(lo) = 0 /\ sn(hi) = 0
          /\ \A i \in (lo + 1)..(hi - 1) : sn(i) # 0
          /\ \A i \in lo..(hi - 1) :
               result.schedule[i + 1].arrive_time >=
                 result.schedule[i].arrive_time
                   + Minutes(TravelTime(sn(i), sn(i + 1)))
                   + (IF sn(i) # 0 THEN Minutes(ServiceTime(sn(i))) ELSE 0)

\* C20 witness: a schedule was returned in which one vehicle of two stayed
\* at the depot and the other reached its first job at the very minute it
\* left the depot.
C20_Witness ==
  /\ Returned
  /\ result.K = 2
  /\ Cardinality({result.schedule[i].witch_id : i \in 1..Len(result.schedule)}) = 1
  /\ \E i \in 1..(Len(result.schedule) - 1) :
       /\ result.schedule[i].synthetic_node = 0
       /\ result.schedule[i + 1].synthetic_node # 0
       /\ result.schedule[i].arrive_time = result.schedule[i + 1].arrive_time

\* the positions of the schedule rows that are the stop of job j
RowsOfJob(j) == {i \in 1..Len(result.schedule) : result.schedule[i].synthetic_node = j}

\* C26: in a returned schedule every input job is a stop exactly once, on
\* one vehicle's route: no job is dropped, none is served twice, also when
\* several jobs share a collection node.
C26_EveryJobOnce ==
  Returned =>
    \A j \in 1..NJobs :
      /\ Cardinality(RowsOfJob(j)) = 1
      /\ \A i \in RowsOfJob(j) : result.schedule[i].node = jobs[j].node_id

\* C26 witness: a schedule was returned for two jobs at the same node,
\* served by different vehicles.
C26_Witness ==
  /\ Returned
  /\ NJobs = 2
  /\ jobs[1].node_id = jobs[2].node_id
  /\ \E i \in RowsOfJob(1) : \E k \in RowsOfJob(2) :
       result.schedule[i].witch_id # result.schedule[k].witch_id

---------------------------------------------------------------------------
(* The job synthesizer: job_builder.py.

   The forecast frame has an hourly index; sample i of every column is
   taken at HorizonStart + 3600 * (i - 1) seconds.  overflow_frac and
   target_frac are percentages, chosen dyadic (75 %, 25 %, 50 %) so that
   threshold and target are the exact products the floating-point code
   computes.  Timestamps are whole seconds; the sample values below make
   every interpolated crossing fall on a whole second.  Levels, demands,
   thresholds and targets are exact fractions [num, den]. *)

HorizonStart == 7200

SampleStep == 3600

\* the metadata frame: cauldrons.set_index("id")[max_volume, latitude, longitude]
Meta(cid) ==
  [max_volume |-> 100,
   latitude   |-> IF cid = "A" THEN 1 ELSE 2,
   longitude  |-> IF cid = "A" THEN 3 ELSE 4]

\* an hourly DatetimeIndex of n timestamps
TsIndex(n) == [i \in 1..n |-> HorizonStart + SampleStep * (i - 1)]

\* threshold = overflow_frac * max_vol, as the fraction num / 100
ThresholdOf(cid) == [num |-> overflow_frac * Meta(cid).max_volume, den |-> 100]

\* target = target_frac * max_vol, as the fraction num / 100
TargetOf(cid) == [num |-> target_frac * Meta(cid).max_volume, den |-> 100]

\* the test values[i-1] < threshold <= values[i]
Crosses(values, i, thr) ==
  /\ values[i - 1] * thr.den < thr.num
  /\ thr.num <= values[i] * thr.den

\* mutant of CrossIndex: the last crossing of the curve is taken
CrossIndex_Last(values, thr) ==
  LET hits == {i \in 2..Len(values) : Crosses(values, i, thr)}
  IN  IF hits = {} THEN 0 ELSE CHOOSE i \in hits : \A j \in hits : j <= i

\* the first i of range(1, len(values)) at which the curve crosses, 0 if none
\* (positions are 1-based here: i ranges over 2..Len(values))
CrossIndex(values, thr) ==
  LET hits == {i \in 2..Len(values) : Crosses(values, i, thr)}
  IN  IF hits = {} THEN 0 ELSE CHOOSE i \in hits : \A j \in hits : i <= j

NoCross == [found |-> FALSE]

\* mutant of InterpCrossTime: a curve without a crossing gets the last
\* timestamp of the horizon instead of None
InterpCrossTime_LastSample(ts, values, thr) ==
  LET i == CrossIndex(values, thr)
  IN  IF i = 0 THEN [found |-> TRUE, t |-> ts[Len(ts)]]
      ELSE [found |-> TRUE, t |-> ts[i]]

\* _interp_cross_time: None, or t0 + (t1 - t0) * frac
InterpCrossTime(ts, values, thr) ==
  LET i == CrossIndex(values, thr)
  IN  IF i = 0 THEN NoCross
      ELSE LET t0 == ts[i - 1]
               t1 == ts[i]
               v0 == values[i - 1]
               v1 == values[i]
           IN  IF v1 = v0 THEN [found |-> TRUE, t |-> t1]
               ELSE [found |-> TRUE,
                     t |-> t0 + ((t1 - t0) * (thr.num - v0 * thr.den))
                                  \div ((v1 - v0) * thr.den)]

\* level_at_earliest, as a fraction over SampleStep
LevelAtEarliest(ts, values, earliest) ==
  LET before == {i \in 1..Len(ts) : ts[i] <= earliest}
      after  == {i \in 1..Len(ts) : ts[i] >= earliest}
  IN  IF before # {} /\ after # {}
      THEN LET i0 == CHOOSE i \in before : \A j \in before : j <= i
               i1 == CHOOSE i \in after : \A j \in after : i <= j
               v0 == values[i0]
               v1 == values[i1]
           IN  IF ts[i0] = ts[i1]
               THEN [num |-> v0 * SampleStep, den |-> SampleStep]
               ELSE [num |-> v0 * (ts[i1] - ts[i0]) + (v1 - v0) * (earliest - ts[i0]),
                     den |-> ts[i1] - ts[i0]]
      ELSE [num |-> values[1] * SampleStep, den |-> SampleStep]

\* max(0.0, level_at_earliest - target)
DemandOf(level, target) ==
  LET num == level.num * target.den - target.num * level.den
  IN  [num |-> Max2(0, num), den |-> level.den * target.den]


\* emit_job(d, k): the row appended for cid
EmitJob(cid, earliest, latest, d, k) ==
  [job_id       |-> <<cid, earliest, k>>,
   node_id      |-> cid,
   earliest     |-> earliest,
   latest       |-> latest,
   demand       |-> d,
   service_time |-> service_time_min,
   target_level |-> TargetOf(cid),
   threshold    |-> ThresholdOf(cid),
   max_volume   |-> Meta(cid).max_volume,
   lat          |-> Meta(cid).latitude,
   lon          |-> Meta(cid).longitude]

\* mutant of SplitJobs: the number of chunks is rounded down
SplitJobs_Floor(cid, earliest, latest, demand) ==
  IF max_job_split_capacity # 0 /\ demand.num > max_job_split_capacity * demand.den
  THEN LET n == demand.num \div (max_job_split_capacity * demand.den)
           base == [num |-> demand.num, den |-> demand.den * n]
       IN  [k \in 1..n |-> EmitJob(cid, earliest, latest, base, k - 1)]
  ELSE <<EmitJob(cid, earliest, latest, demand, 0)>>

\* the rows one demand gives: ceil(demand / split_cap) equal chunks when a
\* split capacity is given and exceeded, one row otherwise
SplitJobs(cid, earliest, latest, demand) ==
  IF max_job_split_capacity # 0 /\ demand.num > max_job_split_capacity * demand.den
  THEN LET n == CeilDiv(demand.num, max_job_split_capacity * demand.den)
           base == [num |-> demand.num, den |-> demand.den * n]
       IN  [k \in 1..n |-> EmitJob(cid, earliest, latest, base, k - 1)]
  ELSE <<EmitJob(cid, earliest, latest, demand, 0)>>

\* one pass of the loop over future_wide.columns: the rows appended for cid
JobsForColumn(cid) ==
  IF cid \notin SeqToSet(cauldrons) THEN <<>>
  ELSE LET series == future_wide.values[cid]
           cross  == InterpCrossTime(future_wide.index, series, ThresholdOf(cid))
       IN  IF ~ cross.found THEN <<>>
           ELSE LET earliest == cross.t - 60 * buffer_min
                    latest   == Max2(cross.t + 900, earliest + 900)
                    level    == LevelAtEarliest(future_wide.index, series, earliest)
                    demand   == DemandOf(level, TargetOf(cid))
                IN  IF demand.num <= demand.den \div 1000000 THEN <<>>
                    ELSE SplitJobs(cid, earliest, latest, demand)

\* the list jobs after the loop over the first n columns
RECURSIVE JobsAfter(_)
JobsAfter(n) ==
  IF n = 0 THEN <<>>
  ELSE JobsAfter(n - 1) \o JobsForColumn(future_wide.columns[n])

\* the order of sort_values(["earliest", "node_id"])
JobBefore(a, b) ==
  \/ a.earliest < b.earliest
  \/ (a.earliest = b.earliest /\ NodeRank(a.node_id) < NodeRank(b.node_id))

\* sort_values(["earliest", "node_id"]).reset_index(drop=True), ties in input order
RECURSIVE SortJobs(_)
SortJobs(rows) ==
  IF Len(rows) <= 1 THEN rows
  ELSE LET init == SortJobs(SubSeq(rows, 1, Len(rows) - 1))
           x == rows[Len(rows)]
           n == Cardinality({i \in 1..Len(init) : ~ JobBefore(x, init[i])})
       IN  SubSeq(init, 1, n) \o <<x>> \o SubSeq(init, n + 1, Len(init))

\* ---- inputs of the synthesizer runs ----

Vols == {40, 60, 75, 100}

Curves(n) == [1..n -> Vols]

\* the second column, when there is one: a curve that stays low or one that
\* rises through the threshold in its first hour
OtherCurves(n) == {[i \in 1..n |-> 40], [i \in 1..n |-> IF i = 1 THEN 60 ELSE 100]}

Forecasts ==
  UNION {
    {[index |-> TsIndex(n), columns |-> <<"A">>,
      values |-> [c \in CauldronIds |-> IF c = "A" THEN a ELSE <<>>]] : a \in Curves(n)}
    \cup
    {[index |-> TsIndex(n), columns |-> cols,
      values |-> [c \in CauldronIds |-> IF c = "A" THEN a ELSE b]] :
        a \in Curves(n), b \in OtherCurves(n), cols \in {<<"A", "B">>, <<"B", "A">>}}
    : n \in 2..MaxSamples}

BuilderInit ==
  /\ edges = <<>>
  /\ directed = FALSE
  /\ cauldrons \in CauldronLists
  /\ G = NoGraph
  /\ matrix = NoMatrix
  /\ netPc = "idle"
  /\ WinIdle
  /\ RouterIdle
  /\ future_wide \in Forecasts
  /\ overflow_frac = 75
  /\ target_frac \in {25, 50}
  /\ buffer_min \in {0, 45}
  /\ service_time_min \in {-2, 0, 8}
  /\ max_job_split_capacity \in {0, 20, 25}
  /\ jobPc = "start"
  /\ DiagIdle
  /\ PlayerIdle
  /\ ReconIdle

\* build_pickup_jobs returns the sorted frame
BuildPickupJobs ==
  /\ jobPc = "start"
  /\ JobsAfter(Len(future_wide.columns)) # <<>>
  /\ jobs' = SortJobs(JobsAfter(Len(future_wide.columns)))
  /\ jobPc' = "done"
  /\ UNCHANGED <<playerVars, reconVars, diagVars, netVars, min_window_min, add_slack_min, repaired, winPc,
                 routerVars, builderArgs>>

\* no row was appended: the frame has no column to sort by and
\* sort_values raises KeyError
BuildPickupJobsNoRows ==
  /\ jobPc = "start"
  /\ JobsAfter(Len(future_wide.columns)) = <<>>
  /\ jobPc' = "raised"
  /\ UNCHANGED <<playerVars, reconVars, diagVars, netVars, winVars, routerVars, builderArgs>>

BuilderNext == BuildPickupJobs \/ BuildPickupJobsNoRows

SpecJobs == BuilderInit /\ [][BuilderNext]_vars

---------------------------------------------------------------------------
(* Claims about the job synthesizer, checked under SpecJobs *)

\* the curve of column cid has no sample at or above its threshold
NeverReaches(cid) ==
  \A i \in 1..Len(future_wide.values[cid]) :
    future_wide.values[cid][i] * 100 < overflow_frac * Meta(cid).max_volume

\* C10: when the samples of a node's curve never reach
\* overflow_frac * max_volume, the frame build_pickup_jobs returns has no
\* job for that node.
C10_NoCrossingNoJob ==
  jobPc = "done" =>
    \A c \in SeqToSet(future_wide.columns) :
      NeverReaches(c) => \A i \in 1..Len(jobs) : jobs[i].node_id # c

\* C10 witness: a frame was returned for a forecast in which one known
\* node's curve stays below its threshold.
C10_Witness ==
  /\ jobPc = "done"
  /\ \E c \in SeqToSet(future_wide.columns) :
       c \in SeqToSet(cauldrons) /\ NeverReaches(c)


RECURSIVE Gcd(_, _)
Gcd(a, b) == IF b = 0 THEN a ELSE Gcd(b, a % b)

\* a fraction in lowest terms
Norm(f) == LET g == Gcd(f.num, f.den) IN [num |-> f.num \div g, den |-> f.den \div g]

\* the demand the synthesizer computes for column cid before any split
NodeDemand(cid) ==
  LET cross    == InterpCrossTime(future_wide.index, future_wide.values[cid], ThresholdOf(cid))
      earliest == cross.t - 60 * buffer_min
  IN  DemandOf(LevelAtEarliest(future_wide.index, future_wide.values[cid], earliest),
               TargetOf(cid))

\* column cid is known, crosses its threshold and has a demand above epsilon
HasDemand(cid) ==
  /\ cid \in SeqToSet(cauldrons)
  /\ CrossIndex(future_wide.values[cid], ThresholdOf(cid)) # 0
  /\ NodeDemand(cid).num > NodeDemand(cid).den \div 1000000

\* the positions of the returned rows of node cid
RowsOf(cid) == {i \in 1..Len(jobs) : jobs[i].node_id = cid}

RECURSIVE SumNums(_)
SumNums(S) ==
  IF S = {} THEN 0
  ELSE LET i == CHOOSE x \in S : TRUE IN jobs[i].demand.num + SumNums(S \ {i})

\* the demand of column cid exceeds the configured split capacity
ExceedsSplit(cid) ==
  /\ max_job_split_capacity # 0
  /\ NodeDemand(cid).num > max_job_split_capacity * NodeDemand(cid).den

\* C11: a node whose demand D exceeds the configured split capacity gets
\* exactly n = ceil(D / split_capacity) rows, all with the same window and
\* pairwise distinct job ids, each of demand D / n and at most the split
\* capacity, summing to D; a node whose demand does not exceed the split
\* capacity (or when none is configured) gets exactly one row, of demand D.
C11_SplitSiblings ==
  jobPc = "done" =>
    \A c \in SeqToSet(future_wide.columns) :
      HasDemand(c) =>
        LET D    == NodeDemand(c)
            rows == RowsOf(c)
            n    == CeilDiv(D.num, max_job_split_capacity * D.den)
        IN  IF ExceedsSplit(c)
            THEN /\ Cardinality(rows) = n
                 /\ \A i \in rows : \A j \in rows :
                      /\ jobs[i].earliest = jobs[j].earliest
                      /\ jobs[i].latest = jobs[j].latest
                      /\ jobs[i].demand.den = jobs[j].demand.den
                      /\ i # j => jobs[i].job_id # jobs[j].job_id
                 /\ \A i \in rows :
                      /\ Norm([num |-> jobs[i].demand.num * n, den |-> jobs[i].demand.den]) = Norm(D)
                      /\ jobs[i].demand.num <= max_job_split_capacity * jobs[i].demand.den
                 /\ \A i \in rows :
                      Norm([num |-> SumNums(rows), den |-> jobs[i].demand.den]) = Norm(D)
            ELSE /\ Cardinality(rows) = 1
                 /\ \A i \in rows : Norm(jobs[i].demand) = Norm(D)

\* C11 witness: a frame was returned in which one node's demand exceeded
\* the split capacity and was split into three rows.
C11_Witness ==
  /\ jobPc = "done"
  /\ \E c \in SeqToSet(future_wide.columns) :
       HasDemand(c) /\ ExceedsSplit(c) /\ Cardinality(RowsOf(c)) = 3


\* C12 (as stated): every row build_pickup_jobs returns has
\* earliest <= latest, demand > 0 and service_time >= 0, whatever the
\* forecast and the tunables.
C12_JobInvariants ==
  jobPc = "done" =>
    \A i \in 1..Len(jobs) :
      /\ jobs[i].earliest <= jobs[i].latest
      /\ jobs[i].demand.num > 0 /\ jobs[i].demand.den > 0
      /\ jobs[i].service_time >= 0


\* no column of the forecast yields a row
NoNodeYields == \A c \in SeqToSet(future_wide.columns) : ~ HasDemand(c)

\* C23 (as stated): when no node yields a job (every curve has no crossing
\* or a demand below epsilon), build_pickup_jobs returns an empty job list
\* without error, which is what lets the pipeline report that no pickups
\* are needed before the router is invoked.
C23_EmptyReturned ==
  (jobPc # "start" /\ NoNodeYields) => (jobPc = "done" /\ jobs = <<>>)


\* sample i of column c is the upper end of a strict-then-inclusive upward
\* step through the threshold of c
UpwardStep(c, i) ==
  /\ future_wide.values[c][i - 1] * 100 < overflow_frac * Meta(c).max_volume
  /\ future_wide.values[c][i] * 100 >= overflow_frac * Meta(c).max_volume

\* the upward steps of column c
UpwardSteps(c) == {i \in 2..Len(future_wide.values[c]) : UpwardStep(c, i)}

\* the crossing time row r was built from: earliest + buffer_min
CrossOfRow(r) == jobs[r].earliest + 60 * buffer_min

\* C25: the trigger of a node is the first index i >= 1 where sample i-1 is
\* strictly below the threshold and sample i is at or above it; the crossing
\* time lies in [t(i-1), t(i)] and is t(i-1) plus
\* (threshold - v(i-1)) / (v(i) - v(i-1)) of the sampling interval; later
\* crossings are ignored; a curve without such a step gets no job.
C25_FirstCrossing ==
  jobPc = "done" =>
    \A c \in SeqToSet(future_wide.columns) :
      IF UpwardSteps(c) = {}
      THEN RowsOf(c) = {}
      ELSE LET i  == CHOOSE x \in UpwardSteps(c) : \A y \in UpwardSteps(c) : x <= y
               t0 == future_wide.index[i - 1]
               t1 == future_wide.index[i]
               v0 == future_wide.values[c][i - 1]
               v1 == future_wide.values[c][i]
           IN  \A r \in RowsOf(c) :
                 /\ t0 <= CrossOfRow(r) /\ CrossOfRow(r) <= t1
                 /\ (CrossOfRow(r) - t0) * (v1 - v0) * 100
                      = (t1 - t0) * (overflow_frac * Meta(c).max_volume - v0 * 100)

\* C25 witness: a frame was returned with a row for a curve that has two
\* upward steps, the first of them strictly inside its sampling interval.
C25_Witness ==
  /\ jobPc = "done"
  /\ \E c \in SeqToSet(future_wide.columns) :
       /\ Cardinality(UpwardSteps(c)) = 2
       /\ \E r \in RowsOf(c) :
            /\ future_wide.index[1] < CrossOfRow(r)
            /\ CrossOfRow(r) < future_wide.index[2]

---------------------------------------------------------------------------
(* Diagnostics: test.py.

   Demands and vehicle_capacity are in half units, travel times in half
   minutes, timestamps in seconds, service times and the pad in minutes. *)

\* float(jobs["demand"].sum()) over the first n rows
RECURSIVE TotalDemand(_, _)
TotalDemand(js, n) == IF n = 0 THEN 0 ELSE TotalDemand(js, n - 1) + js[n].demand

\* mutant of BasicLowerBoundsOf: the quotient is rounded down
BasicLowerBoundsOf_Floor(js, cap) ==
  Max2(1, TotalDemand(js, Len(js)) \div cap)

\* basic_lower_bounds: max(1, math.ceil(total_demand / vehicle_capacity))
BasicLowerBoundsOf(js, cap) ==
  Max2(1, CeilDiv(TotalDemand(js, Len(js)), cap))

\* jobs["node_id"].unique(): the node ids in order of first appearance
RECURSIVE UniqueNodes(_, _)
UniqueNodes(js, n) ==
  IF n = 0 THEN <<>>
  ELSE LET before == UniqueNodes(js, n - 1)
       IN  IF js[n].node_id \in SeqToSet(before) THEN before
           ELSE Append(before, js[n].node_id)

\* unreachable_nodes: the nodes with an infinite leg from or to the depot
RECURSIVE UnreachableFrom(_, _, _, _)
UnreachableFrom(m, depot, nodes, n) ==
  IF n = 0 THEN <<>>
  ELSE LET bad == UnreachableFrom(m, depot, nodes, n - 1)
       IN  IF Loc(m, depot, nodes[n]) = Inf \/ Loc(m, nodes[n], depot) = Inf
           THEN Append(bad, nodes[n])
           ELSE bad

UnreachableNodesOf(m, depot, js) ==
  UnreachableFrom(m, depot, UniqueNodes(js, Len(js)), Len(UniqueNodes(js, Len(js))))

\* min_service_pad, in minutes
MinServicePad == 10

\* max(t_dep, r["service_time"], min_service_pad), in half minutes
TightNeed(r, t_dep) == Max2(Max2(t_dep, 2 * r.service_time), 2 * MinServicePad)

\* mutant of TightRow: a window equal to the need is flagged as well
TightRow_Inclusive(r, t_dep) ==
  IF t_dep = Inf THEN <<[node |-> r.node_id, tag |-> "UNREACHABLE"]>>
  ELSE IF 2 * (r.latest - r.earliest) <= 60 * TightNeed(r, t_dep)
       THEN <<[node |-> r.node_id, tag |-> "too tight",
               window |-> r.latest - r.earliest, need |-> TightNeed(r, t_dep)]>>
       ELSE <<>>

\* the body of the loop of tight_windows for row r: the rows it appends.
\* window = seconds / 60.0 is compared with the need in minutes
TightRow(r, t_dep) ==
  IF t_dep = Inf THEN <<[node |-> r.node_id, tag |-> "UNREACHABLE"]>>
  ELSE IF 2 * (r.latest - r.earliest) < 60 * TightNeed(r, t_dep)
       THEN <<[node |-> r.node_id, tag |-> "too tight",
               window |-> r.latest - r.earliest, need |-> TightNeed(r, t_dep)]>>
       ELSE <<>>

\* tight_windows: the rows appended for the first n job rows
RECURSIVE TightWindowsOf(_, _, _, _)
TightWindowsOf(js, m, depot, n) ==
  IF n = 0 THEN <<>>
  ELSE TightWindowsOf(js, m, depot, n - 1) \o TightRow(js[n], Loc(m, depot, js[n].node_id))

\* ---- inputs of the diagnostics runs ----

\* depot->A takes 40 minutes; depot->B takes 1.5 minutes or B is cut off
DiagNetworks ==
  {<<Edge("M", "A", 80), Edge("M", "B", 3)>>,
   <<Edge("M", "A", 80)>>}

\* window lengths in seconds: 9.5, 10 and 40 minutes
DiagWindows == {570, 600, 2400}

\* demands in half units: 100 and 130
DiagDemands == {200, 260}

DiagServiceTimes == {8, 45}

DiagChoices ==
  [node : CauldronIds, len : DiagWindows, demand : DiagDemands, service : DiagServiceTimes]

DiagJobsOf(c) ==
  [i \in 1..Len(c) |->
     [job_id |-> i, node_id |-> c[i].node,
      earliest |-> 7200, latest |-> 7200 + c[i].len,
      demand |-> c[i].demand, service_time |-> c[i].service]]

DiagInit ==
  /\ \E es \in DiagNetworks : NetGiven(UndirectedMatrix(es))
  /\ \E n \in 0..MaxDiagJobs : \E c \in [1..n -> DiagChoices] : jobs = DiagJobsOf(c)
  /\ min_window_min = 60
  /\ add_slack_min = 45
  /\ repaired = <<>>
  /\ winPc = "idle"
  /\ vehicle_capacity \in {0, 5, 200}
  /\ unload_time_min = 15
  /\ shift_length_min = 480
  /\ search_limit_vehicles = NoLimit
  /\ time_horizon_pad_min = 60
  /\ K = 0
  /\ attempts = <<>>
  /\ result = NoResult
  /\ rPc = "idle"
  /\ BuilderIdle
  /\ lb_cap = 0
  /\ bad_nodes = <<>>
  /\ too_tight = <<>>
  /\ diagPc = "start"
  /\ PlayerIdle
  /\ ReconIdle

\* lb_cap = basic_lower_bounds(jobs, vehicle_capacity, ...); a zero capacity
\* raises ZeroDivisionError
BasicLowerBounds ==
  /\ diagPc = "start"
  /\ IF vehicle_capacity = 0
       THEN diagPc' = "raised" /\ lb_cap' = lb_cap
       ELSE diagPc' = "bounds" /\ lb_cap' = BasicLowerBoundsOf(jobs, vehicle_capacity)
  /\ UNCHANGED <<playerVars, reconVars, netVars, winVars, routerVars, builderVars, bad_nodes, too_tight>>

\* bad_nodes = unreachable_nodes(travel_matrix, depot_id, jobs)
UnreachableNodes ==
  /\ diagPc = "bounds"
  /\ bad_nodes' = UnreachableNodesOf(matrix, MarketId, jobs)
  /\ diagPc' = "unreachable"
  /\ UNCHANGED <<playerVars, reconVars, netVars, winVars, routerVars, builderVars, lb_cap, too_tight>>

\* too_tight = tight_windows(jobs, travel_matrix, depot_id)
TightWindows ==
  /\ diagPc = "unreachable"
  /\ too_tight' = TightWindowsOf(jobs, matrix, MarketId, Len(jobs))
  /\ diagPc' = "done"
  /\ UNCHANGED <<playerVars, reconVars, netVars, winVars, routerVars, builderVars, lb_cap, bad_nodes>>

DiagNext == BasicLowerBounds \/ UnreachableNodes \/ TightWindows

SpecDiag == DiagInit /\ [][DiagNext]_vars

---------------------------------------------------------------------------
(* Claims about the diagnostics, checked under SpecDiag *)

\* basic_lower_bounds has returned
BoundsDone == diagPc \in {"bounds", "unreachable", "done"}

\* C13 (as stated): for a positive capacity the lower bound returned is
\* ceil(total_demand / vehicle_capacity), whatever the job list.
C13_LowerBoundIsCeil ==
  (BoundsDone /\ vehicle_capacity > 0) =>
    lb_cap = CeilDiv(TotalDemand(jobs, Len(jobs)), vehicle_capacity)

\* C13 (amended): for a positive capacity the lower bound returned is
\* max(1, ceil(total_demand / vehicle_capacity)): the ceiling of the
\* quotient when the total demand is positive, and 1 when it is zero.
C13_LowerBoundClamped ==
  (BoundsDone /\ vehicle_capacity > 0) =>
    LET total == TotalDemand(jobs, Len(jobs))
        \* the least integer q with q * capacity >= total
        ceil  == CHOOSE q \in 0..total : q * vehicle_capacity >= total /\
                                         (q = 0 \/ (q - 1) * vehicle_capacity < total)
    IN  /\ total > 0 => lb_cap = ceil
        /\ total = 0 => lb_cap = 1

\* C13 witness: total demand 230 with capacity 100 gave 3.
C13_Witness ==
  /\ BoundsDone
  /\ TotalDemand(jobs, Len(jobs)) = 460
  /\ vehicle_capacity = 200
  /\ lb_cap = 3


\* depot->node travel time of job row i, in half minutes
DepotTravel(i) == Loc(matrix, MarketId, jobs[i].node_id)

\* the window of job row i, in seconds, is shorter than
\* max(depot->node travel, service_time, pad)
WindowBelowNeed(i) ==
  \/ DepotTravel(i) = Inf
  \/ jobs[i].latest - jobs[i].earliest
       < 30 * SetMax({DepotTravel(i), 2 * jobs[i].service_time, 2 * MinServicePad})

\* the job rows whose windows are shorter than that maximum
BelowNeed == {i \in 1..Len(jobs) : WindowBelowNeed(i)}

---------------------------------------------------------------------------
(* The router with its default search range: solve_vrptw_min_vehicles called
   with search_limit_vehicles=None, as main.py calls it. *)

\* networks of these runs: half a minute to A (a travel time of 0 after
\* rounding) or one minute to A
SearchNetworks == {<<Edge("M", "A", 1)>>, <<Edge("M", "A", 2)>>}

\* a job at A whose window opens `open` seconds after 02:00:00 and lasts two
\* minutes
SearchJob(i, open, demand, service) ==
  [job_id |-> i, node_id |-> "A",
   earliest |-> 7200 + open, latest |-> 7200 + open + 120,
   demand |-> demand, service_time |-> service]

\* the jobs frames of these runs; demands in half units
SearchJobLists ==
  {<<>>,
   <<SearchJob(1, 0, 1, 0)>>,
   <<SearchJob(1, 0, 4, 1)>>,
   <<SearchJob(1, 0, 12, 1)>>,
   <<SearchJob(1, 0, 1, 0), SearchJob(2, 60, 4, 0)>>,
   <<SearchJob(1, 0, 4, 0), SearchJob(2, 480, 4, 0)>>,
   <<SearchJob(1, 0, 1, 0), SearchJob(2, 510, 1, 0)>>,
   <<SearchJob(1, 0, 1, 0), SearchJob(2, 540, 1, 0)>>,
   <<SearchJob(1, 0, 4, 0), SearchJob(2, 60, 8, 1)>>}

SearchInit ==
  /\ \E es \in SearchNetworks : NetGiven(UndirectedMatrix(es))
  /\ jobs \in SearchJobLists
  /\ min_window_min = 60
  /\ add_slack_min = 45
  /\ repaired = <<>>
  /\ winPc = "idle"
  /\ vehicle_capacity \in {0, 5}
  /\ unload_time_min = 1
  /\ shift_length_min = 8
  /\ search_limit_vehicles = NoLimit
  /\ time_horizon_pad_min = 1
  /\ K = 0
  /\ attempts = <<>>
  /\ result = NoResult
  /\ rPc = "start"
  /\ BuilderIdle
  /\ DiagIdle
  /\ PlayerIdle
  /\ ReconIdle

SearchAttemptSolved == AttemptSolvedUpTo(MaxSearchK)

SearchAttemptNoSolution == AttemptNoSolutionUpTo(MaxSearchK)

SearchNext ==
  RouterEnter \/ SearchAttemptSolved \/ SearchAttemptNoSolution \/ SearchExhausted

SpecSearch == SearchInit /\ [][SearchNext]_vars

---------------------------------------------------------------------------
(* Claims about the default search range, checked under SpecSearch *)

\* C24: with no explicit search range, start_K is the capacity lower bound
\* Diagnostics computes for the same jobs and capacity, max_K is
\* start_K + 10, and the loop makes at most 11 attempts, one per K, before
\* it ends.
C24_DefaultRange ==
  rPc \in {"loop", "done"} =>
    /\ StartK = BasicLowerBoundsOf(jobs, vehicle_capacity)
    /\ MaxKOf = StartK + 10
    /\ Len(attempts) <= 11
    /\ \A i \in 1..Len(attempts) : attempts[i].K = StartK + (i - 1)
    /\ rPc = "loop" => K = StartK + Len(attempts)
    /\ (rPc = "loop" /\ Len(attempts) = 11) =>
         (K > MaxKOf /\ ENABLED SearchExhausted /\ ~ ENABLED SearchAttemptNoSolution)
    /\ (rPc = "loop" /\ Len(attempts) < 11) => K <= MaxSearchK

\* C24 witness: the router returned without a plan after eleven attempts,
\* K = 3 .. 13, for a demand of 6.0 against a capacity of 2.5.
C24_Witness ==
  /\ Exhausted
  /\ Len(attempts) = 11
  /\ attempts[1].K = 3
  /\ attempts[11].K = 13

\* a job whose window opens more than shift_length_min minutes after the
\* earliest job's earliest time
OpensAfterShift(j) == jobs[j].earliest - GlobalStart > Minutes(shift_length_min)

\* C27 (as stated): in a returned schedule every stop's arrival offset from
\* the earliest job's earliest time lies between 0 and shift_length_min
\* minutes; hence jobs with a window that opens more than shift_length_min
\* minutes after the earliest job's earliest time have no feasible plan for
\* any K, and no schedule is returned for them.
C27_ArrivalsWithinShift ==
  /\ Returned =>
       \A i \in 1..Len(result.schedule) :
         /\ result.schedule[i].arrive_time - GlobalStart >= 0
         /\ result.schedule[i].arrive_time - GlobalStart <= Minutes(shift_length_min)
  /\ (\E j \in 1..NJobs : OpensAfterShift(j)) => ~ Returned

---------------------------------------------------------------------------
(* Live playback: potion_player.py, class LiveDFPlayer.

   Every public method runs its body under self._lock, so a method is one
   step; stop() sets the stop event before it takes the lock in pause(), so
   it is two.  A loop thread alternates between testing the stop event
   (which it does after its sleep, outside the lock) and running the locked
   body of the loop. *)

\* the net variables while compute_travel_times is not running
NetIdle ==
  /\ edges = <<>>
  /\ directed = FALSE
  /\ cauldrons = <<"A", "B">>
  /\ G = NoGraph
  /\ matrix = NoMatrix
  /\ netPc = "idle"

\* an optional direction argument: None, or an integer
NoDir == [given |-> FALSE]

DirArgs == {NoDir} \cup {[given |-> TRUE, v |-> x] : x \in {-1, 0, 1}}

\* +1 if direction >= 0 else -1
SignOf(d) == IF d >= 0 THEN 1 ELSE -1

\* mutant of Clamp: the index is clamped from below only
Clamp_NoUpper(i) == IF player_n = 0 THEN 0 ELSE Max2(0, i)

\* _clamp(i)
Clamp(i) == IF player_n = 0 THEN 0 ELSE Max2(0, Min2(player_n - 1, i))

\* thread t has been started and has not left _loop
IsAlive(t) == loopPc[t] \in {"check", "body"}

\* self.timeline: one timestamp per frame, a minute apart (seconds)
Timeline == [i \in 1..player_n |-> 60 * (i - 1)]

Abs(x) == IF x < 0 THEN - x ELSE x

\* np.searchsorted(arr, target): the number of timestamps below target
SearchSorted(target) == Cardinality({i \in 1..player_n : Timeline[i] < target})

\* the position seek_time hands to seek_index: the nearer of pos and pos - 1
SeekPos(target) ==
  LET pos == SearchSorted(target)
  IN  IF pos = player_n
         \/ (pos > 0 /\ Abs(Timeline[pos] - target) < Abs(Timeline[pos + 1] - target))
      THEN pos - 1
      ELSE pos

\* arguments of the calls
SeekIndexes == -1..(MaxFrames + 1)

SeekTargets == {-30, 0, 20, 30, 40, 60 * MaxFrames + 30}

StepCounts == {-1, 1, 2}

\* LiveDFPlayer(df_long): the state __init__ leaves
PlayerInit ==
  /\ NetIdle
  /\ WinIdle
  /\ RouterIdle
  /\ BuilderIdle
  /\ DiagIdle
  /\ ReconIdle
  /\ player_n \in 0..MaxFrames
  /\ player_idx = 0
  /\ direction = 1
  /\ playing = FALSE
  /\ stop_evt = FALSE
  /\ thread = 0
  /\ loopPc = [t \in 1..MaxThreads |-> "unborn"]
  /\ stopPc = "idle"
  /\ lastOp = "init"

\* play(direction): a thread is started only when none is alive
Play(d) ==
  /\ direction' = IF d.given THEN SignOf(d.v) ELSE direction
  /\ IF ~ playing
       THEN /\ playing' = TRUE
            /\ IF thread = 0 \/ ~ IsAlive(thread)
                 THEN /\ thread < MaxThreads
                      /\ stop_evt' = FALSE
                      /\ thread' = thread + 1
                      /\ loopPc' = [loopPc EXCEPT ![thread + 1] = "check"]
                 ELSE UNCHANGED <<stop_evt, thread, loopPc>>
       ELSE UNCHANGED <<playing, stop_evt, thread, loopPc>>
  /\ lastOp' = "play"
  /\ UNCHANGED <<netVars, winVars, routerVars, builderVars, diagVars, reconVars,
                 player_n, player_idx, stopPc>>

\* pause()
Pause ==
  /\ playing' = FALSE
  /\ lastOp' = "pause"
  /\ UNCHANGED <<netVars, winVars, routerVars, builderVars, diagVars, reconVars,
                 player_n, player_idx, direction, stop_evt, thread, loopPc, stopPc>>

\* stop(), first statement: self._stop_evt.set()
StopSet ==
  /\ stopPc = "idle"
  /\ stop_evt' = TRUE
  /\ stopPc' = "set"
  /\ lastOp' = "stop_set"
  /\ UNCHANGED <<netVars, winVars, routerVars, builderVars, diagVars, reconVars,
                 player_n, player_idx, direction, playing, thread, loopPc>>

\* stop(), second statement: self.pause()
StopPause ==
  /\ stopPc = "set"
  /\ playing' = FALSE
  /\ stopPc' = "idle"
  /\ lastOp' = "stop_pause"
  /\ UNCHANGED <<netVars, winVars, routerVars, builderVars, diagVars, reconVars,
                 player_n, player_idx, direction, stop_evt, thread, loopPc>>

\* step(steps, direction)
Step(steps, d) ==
  /\ LET dd == IF d.given THEN SignOf(d.v) ELSE direction
     IN  player_idx' = Clamp(player_idx + dd * Max2(1, steps))
  /\ lastOp' = "step"
  /\ UNCHANGED <<netVars, winVars, routerVars, builderVars, diagVars, reconVars,
                 player_n, direction, playing, stop_evt, thread, loopPc, stopPc>>

\* seek_index(i)
SeekIndex(i) ==
  /\ player_idx' = Clamp(i)
  /\ lastOp' = "seek_index"
  /\ UNCHANGED <<netVars, winVars, routerVars, builderVars, diagVars, reconVars,
                 player_n, direction, playing, stop_evt, thread, loopPc, stopPc>>

\* seek_time(ts_iso)
SeekTime(target) ==
  /\ player_idx' = Clamp(SeekPos(target))
  /\ lastOp' = "seek_time"
  /\ UNCHANGED <<netVars, winVars, routerVars, builderVars, diagVars, reconVars,
                 player_n, direction, playing, stop_evt, thread, loopPc, stopPc>>

\* set_direction(direction)
SetDirection(d) ==
  /\ direction' = SignOf(d)
  /\ lastOp' = "set_direction"
  /\ UNCHANGED <<netVars, winVars, routerVars, builderVars, diagVars, reconVars,
                 player_n, player_idx, playing, stop_evt, thread, loopPc, stopPc>>

\* _loop, the test of the while: the thread leaves when the stop event is set
LoopCheck(t) ==
  /\ loopPc[t] = "check"
  /\ IF stop_evt
       THEN loopPc' = [loopPc EXCEPT ![t] = "dead"] /\ lastOp' = "loop_exit"
       ELSE loopPc' = [loopPc EXCEPT ![t] = "body"] /\ lastOp' = "loop_enter"
  /\ UNCHANGED <<netVars, winVars, routerVars, builderVars, diagVars, reconVars,
                 player_n, player_idx, direction, playing, stop_evt, thread, stopPc>>

\* _loop, the locked body followed by the sleep
LoopBody(t) ==
  /\ loopPc[t] = "body"
  /\ IF ~ playing \/ player_n = 0
       THEN /\ lastOp' = "loop_pass"
            /\ UNCHANGED <<player_idx, playing>>
       ELSE LET nxt == player_idx + direction
            IN  IF nxt < 0 \/ nxt >= player_n
                  THEN /\ playing' = FALSE
                       /\ player_idx' = player_idx
                       /\ lastOp' = "loop_edge"
                  ELSE /\ player_idx' = nxt
                       /\ playing' = playing
                       /\ lastOp' = "loop_step"
  /\ loopPc' = [loopPc EXCEPT ![t] = "check"]
  /\ UNCHANGED <<netVars, winVars, routerVars, builderVars, diagVars, reconVars,
                 player_n, direction, stop_evt, thread, stopPc>>

PlayerNext ==
  \/ \E d \in DirArgs : Play(d)
  \/ Pause
  \/ StopSet
  \/ StopPause
  \/ \E steps \in StepCounts : \E d \in DirArgs : Step(steps, d)
  \/ \E i \in SeekIndexes : SeekIndex(i)
  \/ \E target \in SeekTargets : SeekTime(target)
  \/ \E d \in {-1, 0, 1} : SetDirection(d)
  \/ \E t \in 1..MaxThreads : LoopCheck(t)
  \/ \E t \in 1..MaxThreads : LoopBody(t)

SpecPlayer == PlayerInit /\ [][PlayerNext]_vars

---------------------------------------------------------------------------
(* Claims about the player, checked under SpecPlayer *)

\* the next index of the loop would fall outside 0..n-1
AtEdge == player_idx + direction < 0 \/ player_idx + direction >= player_n

\* C28: with n > 0 frames the index satisfies 0 <= idx <= n-1 in every
\* state, whatever the interleaving of the calls and the loop thread; and a
\* pass of the loop made while playing with the next index outside that
\* range sets playing to false and leaves idx unchanged.
C28_IndexInRange ==
  /\ [](player_n > 0 => (player_idx >= 0 /\ player_idx <= player_n - 1))
  /\ [][(lastOp' \in {"loop_pass", "loop_edge", "loop_step"}
          /\ playing /\ player_n > 0 /\ AtEdge)
        => (playing' = FALSE /\ player_idx' = player_idx)]_vars

\* C28 witness: the loop, playing forward, stopped at the last of three
\* frames.
C28_Witness ==
  /\ lastOp = "loop_edge"
  /\ player_n = 3
  /\ player_idx = 2
  /\ direction = 1
  /\ playing = FALSE

\* the loop threads that are alive
AliveThreads == {t \in 1..MaxThreads : IsAlive(t)}

\* C29 (as stated): at most one loop thread is alive at a time, and
\* whenever playing is true (and no stop() call is between its two
\* statements) a loop thread is alive and the stop flag is cleared, so that
\* playback goes on; in particular after play() called after stop().
C29_PlayingHasLoop ==
  player_n > 0 =>
    /\ Cardinality(AliveThreads) <= 1
    /\ (playing /\ stopPc = "idle") => (AliveThreads # {} /\ ~ stop_evt)

---------------------------------------------------------------------------
(* Ticket reconciliation: analysis.py, reconcile_events_and_tickets.

   Drains and amounts are whole litres; a relative difference is kept as the
   fraction num / den = |drain - amount| / amount.  An event is told from
   the others by its start_time, a ticket by its ticket_id. *)

\* total_drain of the events and amount_collected of the tickets drawn
RecDrains == {21, 96, 105, 106}

RecAmounts == {0, 20, 100}

EventChoices == [cauldron_id : CauldronIds, total_drain : RecDrains]

TicketChoices == [cauldron_id : CauldronIds, amount_collected : RecAmounts]

\* the drain events of a day, in the order get_drain_events lists them
EventsOf(c) ==
  [i \in 1..Len(c) |->
     [start_time |-> i, cauldron_id |-> c[i].cauldron_id, total_drain |-> c[i].total_drain]]

\* the tickets of a day: tickets_today.to_dict('records')
TicketsOf(c) ==
  [i \in 1..Len(c) |->
     [ticket_id |-> i, cauldron_id |-> c[i].cauldron_id,
      amount_collected |-> c[i].amount_collected]]

\* before any ticket was compared: best_match_ticket = None, smallest = inf
NoMatch == [found |-> FALSE, index |-> 0, num |-> 0, den |-> 1]

\* the inner loop over the first i tickets of the pool: the best match so far
RECURSIVE BestUpTo(_, _, _)
BestUpTo(event, pool, i) ==
  IF i = 0 THEN NoMatch
  ELSE LET prev   == BestUpTo(event, pool, i - 1)
           ticket == pool[i]
           num    == Abs(event.total_drain - ticket.amount_collected)
           den    == ticket.amount_collected
       IN  IF /\ event.cauldron_id = ticket.cauldron_id
              /\ ticket.amount_collected > 0
              /\ (~ prev.found \/ num * prev.den < prev.num * den)
           THEN [found |-> TRUE, index |-> i, num |-> num, den |-> den]
           ELSE prev

\* best_match_ticket is not None and smallest_diff_percent <= MATCH_TOLERANCE
WithinTolerance(b) == b.found /\ 100 * b.num <= 5 * b.den

\* mutant of RemoveAt: the matched ticket stays in the pool
RemoveAt_Keep(pool, i) == pool

\* tickets_to_match.pop(ticket_index_to_remove)
RemoveAt(pool, i) == SubSeq(pool, 1, i - 1) \o SubSeq(pool, i + 1, Len(pool))

ReconInit ==
  /\ NetIdle
  /\ WinIdle
  /\ RouterIdle
  /\ BuilderIdle
  /\ DiagIdle
  /\ PlayerIdle
  /\ \E k \in 0..MaxEvents : \E c \in [1..k -> EventChoices] : drain_events_list = EventsOf(c)
  /\ \E k \in 0..MaxTickets : \E c \in [1..k -> TicketChoices] : tickets_today_list = TicketsOf(c)
  /\ tickets_to_match = <<>>
  /\ reconciled_pairs = <<>>
  /\ unlogged_drains = <<>>
  /\ flagged_tickets = <<>>
  /\ evPos = 0
  /\ recPc = "start"

\* the head of the function: the result lists and the copies of the inputs
ReconcileEnter ==
  /\ recPc = "start"
  /\ tickets_to_match' = tickets_today_list
  /\ evPos' = 1
  /\ recPc' = "loop"
  /\ UNCHANGED <<netVars, winVars, routerVars, builderVars, diagVars, playerVars,
                 drain_events_list, tickets_today_list, reconciled_pairs,
                 unlogged_drains, flagged_tickets>>

\* one pass of the loop over the drain events
ReconcileEvent ==
  /\ recPc = "loop"
  /\ evPos <= Len(drain_events_list)
  /\ LET event == drain_events_list[evPos]
         best  == BestUpTo(event, tickets_to_match, Len(tickets_to_match))
     IN  IF WithinTolerance(best)
           THEN /\ reconciled_pairs' =
                     Append(reconciled_pairs,
                            [ticket |-> tickets_to_match[best.index], event |-> event])
                /\ tickets_to_match' = RemoveAt(tickets_to_match, best.index)
                /\ unlogged_drains' = unlogged_drains
           ELSE /\ unlogged_drains' = Append(unlogged_drains, event)
                /\ UNCHANGED <<reconciled_pairs, tickets_to_match>>
  /\ evPos' = evPos + 1
  /\ UNCHANGED <<netVars, winVars, routerVars, builderVars, diagVars, playerVars,
                 drain_events_list, tickets_today_list, flagged_tickets, recPc>>

\* after the loop: the tickets left in the pool are the flagged ones
ReconcileReturn ==
  /\ recPc = "loop"
  /\ evPos > Len(drain_events_list)
  /\ flagged_tickets' = tickets_to_match
  /\ recPc' = "done"
  /\ UNCHANGED <<netVars, winVars, routerVars, builderVars, diagVars, playerVars,
                 drain_events_list, tickets_today_list, tickets_to_match,
                 reconciled_pairs, unlogged_drains, evPos>>

ReconNext == ReconcileEnter \/ ReconcileEvent \/ ReconcileReturn

SpecReconcile == ReconInit /\ [][ReconNext]_vars

---------------------------------------------------------------------------
(* Claims about the reconciliation, checked under SpecReconcile *)

\* the number of positions of list xs that hold x
CountIn(xs, x) == Cardinality({i \in 1..Len(xs) : xs[i] = x})

\* the number of pairs that hold event e, and that hold ticket t
PairsOfEvent(e) ==
  Cardinality({i \in 1..Len(reconciled_pairs) : reconciled_pairs[i].event = e})

PairsOfTicket(t) ==
  Cardinality({i \in 1..Len(reconciled_pairs) : reconciled_pairs[i].ticket = t})

\* C30: the function partitions its inputs: every drain event is in exactly
\* one of reconciled_pairs and unlogged_drains, every ticket in exactly one
\* of reconciled_pairs and flagged_tickets, no ticket is paired with more
\* than one event, and every pair has one cauldron id, an amount > 0 and
\* |drain - amount| / amount <= 5%.
C30_Partition ==
  recPc = "done" =>
    /\ \A i \in 1..Len(drain_events_list) :
         PairsOfEvent(drain_events_list[i]) + CountIn(unlogged_drains, drain_events_list[i]) = 1
    /\ \A i \in 1..Len(tickets_today_list) :
         /\ PairsOfTicket(tickets_today_list[i]) + CountIn(flagged_tickets, tickets_today_list[i]) = 1
         /\ PairsOfTicket(tickets_today_list[i]) <= 1
    /\ Len(reconciled_pairs) + Len(unlogged_drains) = Len(drain_events_list)
    /\ Len(reconciled_pairs) + Len(flagged_tickets) = Len(tickets_today_list)
    /\ \A i \in 1..Len(reconciled_pairs) :
         LET pr == reconciled_pairs[i]
         IN  /\ pr.ticket.cauldron_id = pr.event.cauldron_id
             /\ pr.ticket.amount_collected > 0
             /\ 100 * Abs(pr.event.total_drain - pr.ticket.amount_collected)
                  <= 5 * pr.ticket.amount_collected

\* C30 witness: of two drains at one cauldron the first was paired with a
\* ticket exactly 5% below it, the second, which fits the same ticket, was
\* left unlogged, and the other ticket was flagged.
C30_Witness ==
  /\ recPc = "done"
  /\ Len(reconciled_pairs) = 1
  /\ Len(unlogged_drains) = 1
  /\ Len(flagged_tickets) = 1
  /\ reconciled_pairs[1].event.total_drain = 105
  /\ reconciled_pairs[1].ticket.amount_collected = 100
  /\ unlogged_drains[1].total_drain = 96
  /\ unlogged_drains[1].cauldron_id = reconciled_pairs[1].event.cauldron_id

====
